---- MODULE Spec2Model ----
(***************************************************************************)
(* Model of the supashield probe engine (core/simulate.ts) and of the      *)
(* PostgreSQL session / pg connection pool it drives.                      *)
(*                                                                         *)
(* One probe = one call of executeRlsPolicyProbeForOperation.  Every       *)
(* `await client.query(...)` of the probe is one action; the environment   *)
(* (the database server and the network) chooses the response of each      *)
(* statement: success, an SQL error, or the loss of the connection.        *)
(***************************************************************************)
EXTENDS Integers, Sequences, FiniteSets, TLC

(***************************************************************************)
(* Bounds of the model.                                                    *)
(***************************************************************************)
MaxProbes == 2        \* probes run one after the other on the same pool
MaxRows == 2          \* rows stored in the populated table at start
PoolSize == 2         \* connections the modelled pool holds

(***************************************************************************)
(* Values.                                                                 *)
(***************************************************************************)
Undefined == "<undefined>"      \* JavaScript undefined / absent key
LoginRole == "login"            \* the role of the connection string

Conns == 1..PoolSize
NoClient == PoolSize + 1           \* held by a probe that has no connection
Operations == {"SELECT", "INSERT", "UPDATE", "DELETE"}
Schema == "public"
Tables == {"todos", "nopk", "policy_log"}

\* The table name as the fragments a substring search can hit: a name that
\* contains the text "policy" has it as a fragment of its own.
NameFragments(t) ==
  IF t = "policy_log" THEN <<"policy", "_log">> ELSE <<t>>

\* Primary-key columns the catalog reports for a table.
PrimaryKeyOf(t) == IF t = "todos" THEN <<"id">> ELSE <<>>

\* Columns of a table, with whether each has a column default.
ColumnsOf(t) ==
  IF t = "todos"
    THEN << [column_name |-> "id", has_default |-> TRUE],
            [column_name |-> "title", has_default |-> FALSE] >>
    ELSE << [column_name |-> "note", has_default |-> TRUE] >>

\* The rows each table holds before any probe runs.
InitialRows(t) ==
  IF t = "todos" THEN 1..MaxRows ELSE IF t = "nopk" THEN {1} ELSE {}

\* JWT claims maps handed to a probe; only `role` is inspected by the code.
ClaimsInputs ==
  { [role |-> Undefined,       sub |-> Undefined],
    [role |-> "anon",          sub |-> Undefined],
    [role |-> "authenticated", sub |-> "u1"],
    [role |-> "service_role",  sub |-> Undefined],
    [role |-> "",              sub |-> "u1"] }

\* JavaScript truthiness of a claim value (strings and undefined only).
Truthy(v) == v # Undefined /\ v # ""

(***************************************************************************)
(* Errors.  An error is what the driver rejects a query with: a SQLSTATE   *)
(* code (Undefined for errors that are not from the server) and a message, *)
(* kept as the fragments a substring search can hit.                       *)
(***************************************************************************)
MkError(code, message) == [code |-> code, message |-> message]

ErrInsufficientPrivilege == MkError("42501", <<"must be owner of table">>)
ErrPermissionMessage == MkError("XX000", <<"permission denied", " for schema">>)
ErrPolicyMessage == MkError("P0001", <<"blocked by ", "policy">>)
ErrDuplicateKey ==
  MkError("23505", <<"duplicate key value violates unique constraint">>)
ErrUndefinedTable == MkError("42P01", <<"relation does not exist">>)
ErrInFailedTransaction ==
  MkError("25P02", <<"current transaction is aborted">>)
ErrNoTransaction ==
  MkError("25P01", <<"can only be used in transaction blocks">>)
ErrConnection == MkError(Undefined, <<"Connection terminated unexpectedly">>)

\* SQL errors the server may answer a statement of the attempt with.
AttemptErrors ==
  { ErrInsufficientPrivilege, ErrPermissionMessage, ErrPolicyMessage,
    ErrDuplicateKey, ErrUndefinedTable }

\* SQL errors the server may answer an identity-install statement with.
SetupErrors == { ErrInsufficientPrivilege }

\* String.prototype.includes on a message, for a needle that is a fragment.
Includes(message, needle) == \E i \in 1..Len(message) : message[i] = needle

\* SQL_ERROR_CODES of the shared constants.
PERMISSION_DENIED == "42501"
DUPLICATE_KEY == "23505"

isRlsPolicyViolationError(error) ==
  \/ error.code = PERMISSION_DENIED
  \/ Includes(error.message, "permission denied")
  \/ Includes(error.message, "policy")

isDuplicateKeyError(error) == error.code = DUPLICATE_KEY

interpretDatabaseErrorAsProbeResult(error) ==
  IF isRlsPolicyViolationError(error) THEN "DENY"
  ELSE IF isDuplicateKeyError(error) THEN "ALLOW"
  ELSE "ALLOW"

\* `"schema"."table"`, as fragments.
createFullyQualifiedTableName(schema, t) ==
  <<"\"", schema, "\".\"">> \o NameFragments(t) \o <<"\"">>

\* The Error findTargetRowForMutation throws for a table without primary key.
NoPrimaryKeyError(t) ==
  MkError(Undefined,
          <<"Cannot test UPDATE/DELETE on table ">>
            \o createFullyQualifiedTableName(Schema, t)
            \o <<" because it has no primary key.">>)

(***************************************************************************)
(* Identity install.                                                       *)
(***************************************************************************)
\* JSON.stringify of a claims map: keys with an undefined value are dropped.
JSONstringify(jwtClaims) ==
  SelectSeq(<< <<"role", jwtClaims.role>>, <<"sub", jwtClaims.sub>> >>,
            LAMBDA kv : kv[2] # Undefined)

\* Faulty variant: any role named by the claims is assumed as it is.
determineRoleAsClaimed(jwtClaims) ==
  IF Truthy(jwtClaims.role) THEN jwtClaims.role ELSE "anon"

determinePostgresqlRoleFromJwtClaims(jwtClaims) ==
  IF jwtClaims.role = "authenticated" THEN "authenticated" ELSE "anon"

\* Guard of setLegacyRoleConfigurationIfNeeded.
LegacyRoleNeeded(jwtClaims) ==
  Truthy(jwtClaims.role) /\ jwtClaims.role # "authenticated"

(***************************************************************************)
(* SQL statements as the probe sends them.  `name` is the GUC, role,       *)
(* savepoint or table the statement names; `value` is its parameter.       *)
(***************************************************************************)
Stmt(sql, name, value) == [sql |-> sql, name |-> name, value |-> value]

\* Statements that read or write the target table itself.
TouchesTable == {"SELECT", "SELECT_PK", "INSERT", "INSERT_DEFAULT", "UPDATE", "DELETE"}
\* Statements that end or partially undo a transaction.
TxControl == {"ROLLBACK", "ROLLBACK_TO", "COMMIT"}

(***************************************************************************)
(* The database session behind one pooled connection.                      *)
(*   tx    "idle" (no transaction), "active", or "failed" (aborted block)  *)
(*   work  the rows this transaction sees (its uncommitted view)           *)
(*   sp    the savepoint test_probe: whether it exists, and the view and   *)
(*         settings to return to                                           *)
(*   role  the current role; jwt  the GUC request.jwt.claims               *)
(*   lost  the connection is broken: every further query is rejected       *)
(***************************************************************************)
NoRows == [t \in Tables |-> {}]
UnsetGuc == [set |-> FALSE, value |-> <<>>]
SetGuc(v) == [set |-> TRUE, value |-> v]
NoSavepoint == [exists |-> FALSE, work |-> NoRows, role |-> LoginRole, jwt |-> UnsetGuc]

FreshSession ==
  [tx |-> "idle", work |-> NoRows, sp |-> NoSavepoint,
   role |-> LoginRole, jwt |-> UnsetGuc, lost |-> FALSE]

\* The session once its transaction has ended: transaction-local settings
\* (SET LOCAL, set_config(.., true)) are gone.
EndOfTransaction(cs) ==
  [cs EXCEPT !.tx = "idle", !.work = NoRows, !.sp = NoSavepoint,
             !.role = LoginRole, !.jwt = UnsetGuc]

\* What a statement reads: the transaction's view, or the committed rows.
View(cs, db) == IF cs.tx = "idle" THEN db ELSE cs.work

Max(S) == CHOOSE x \in S : \A y \in S : y <= x
NewRow(rows) == IF rows = {} THEN 1 ELSE Max(rows) + 1

\* The rows of the database after a successful write of table t.
Written(db, stmt) ==
  CASE stmt.sql \in {"INSERT", "INSERT_DEFAULT"} ->
         [db EXCEPT ![stmt.name] = @ \cup {NewRow(@)}]
    [] stmt.sql = "DELETE" -> [db EXCEPT ![stmt.name] = @ \ {stmt.value}]
    [] OTHER -> db

\* Responses.
NoError == MkError(Undefined, <<>>)
Ok(rows, rowCount) ==
  [ok |-> TRUE, lost |-> FALSE, error |-> NoError, rows |-> rows, rowCount |-> rowCount]
Fail(e) ==
  [ok |-> FALSE, lost |-> FALSE, error |-> e, rows |-> <<>>, rowCount |-> 0]
Lost ==
  [ok |-> FALSE, lost |-> TRUE, error |-> ErrConnection, rows |-> <<>>, rowCount |-> 0]

\* The responses the server (or the network) may give to a statement.
Responses(cs, db, stmt) ==
  IF cs.lost THEN {Lost}
  ELSE {Lost} \cup
    IF cs.tx = "failed" /\ stmt.sql \notin TxControl
      THEN {Fail(ErrInFailedTransaction)}
    ELSE CASE stmt.sql \in {"BEGIN", "ROLLBACK", "COMMIT"} -> {Ok(<<>>, 0)}
      [] stmt.sql \in {"SET_CONFIG", "SET_LOCAL_ROLE"} ->
           {Ok(<<>>, 0)} \cup {Fail(e) : e \in SetupErrors}
      [] stmt.sql = "SAVEPOINT" ->
           IF cs.tx = "idle" THEN {Fail(ErrNoTransaction)} ELSE {Ok(<<>>, 0)}
      [] stmt.sql = "ROLLBACK_TO" ->
           IF cs.tx = "idle" \/ ~cs.sp.exists
             THEN {Fail(ErrNoTransaction)} ELSE {Ok(<<>>, 0)}
      [] stmt.sql \in {"SELECT", "SELECT_PK"} ->
           {Ok(<<>>, 0)}
             \cup {Ok(<<r>>, 1) : r \in View(cs, db)[stmt.name]}
             \cup {Fail(e) : e \in AttemptErrors}
      [] stmt.sql = "INTROSPECT_COLUMNS" ->
           {Ok(<<>>, 0), Ok(ColumnsOf(stmt.name), Len(ColumnsOf(stmt.name)))}
      [] stmt.sql = "INTROSPECT_PK" ->
           {Ok(PrimaryKeyOf(stmt.name), Len(PrimaryKeyOf(stmt.name)))}
      [] stmt.sql \in {"INSERT", "INSERT_DEFAULT"} ->
           {Ok(<<>>, 1)} \cup {Fail(e) : e \in AttemptErrors}
      [] stmt.sql \in {"UPDATE", "DELETE"} ->
           {Ok(<<>>, 0)}
             \cup (IF stmt.value \in View(cs, db)[stmt.name]
                     THEN {Ok(<<>>, 1)} ELSE {})
             \cup {Fail(e) : e \in AttemptErrors}

\* The session after a statement got response r.
SessionAfter(cs, db, stmt, r) ==
  IF r.lost THEN [EndOfTransaction(cs) EXCEPT !.lost = TRUE]
  ELSE IF ~r.ok THEN (IF cs.tx = "active" THEN [cs EXCEPT !.tx = "failed"] ELSE cs)
  ELSE CASE stmt.sql = "BEGIN" ->
         IF cs.tx = "idle" THEN [cs EXCEPT !.tx = "active", !.work = db] ELSE cs
    [] stmt.sql = "SET_CONFIG" ->
         IF cs.tx # "active" THEN cs
         ELSE IF stmt.name = "role" THEN [cs EXCEPT !.role = stmt.value]
         ELSE [cs EXCEPT !.jwt = SetGuc(stmt.value)]
    [] stmt.sql = "SET_LOCAL_ROLE" ->
         IF cs.tx = "active" THEN [cs EXCEPT !.role = stmt.name] ELSE cs
    [] stmt.sql = "SAVEPOINT" ->
         [cs EXCEPT !.sp = [exists |-> TRUE, work |-> cs.work,
                            role |-> cs.role, jwt |-> cs.jwt]]
    [] stmt.sql = "ROLLBACK_TO" ->
         [cs EXCEPT !.tx = "active", !.work = cs.sp.work,
                    !.role = cs.sp.role, !.jwt = cs.sp.jwt]
    [] stmt.sql \in {"ROLLBACK", "COMMIT"} -> EndOfTransaction(cs)
    [] stmt.sql \in {"INSERT", "INSERT_DEFAULT", "DELETE"} ->
         IF cs.tx = "active" /\ r.rowCount > 0
           THEN [cs EXCEPT !.work = Written(cs.work, stmt)] ELSE cs
    [] OTHER -> cs

\* The committed rows after a statement got response r: only COMMIT, or a
\* write outside a transaction block (autocommit), makes anything durable.
CommittedAfter(cs, db, stmt, r) ==
  IF ~r.ok THEN db
  ELSE IF stmt.sql = "COMMIT" /\ cs.tx = "active" THEN cs.work
  ELSE IF cs.tx = "idle" /\ r.rowCount > 0 THEN Written(db, stmt)
  ELSE db

(***************************************************************************)
(* State.                                                                  *)
(***************************************************************************)
VARIABLES
  committed,      \* the durable rows of every table
  session,        \* the database session of every pooled connection
  checkedOut,     \* connections the pool has handed out and not got back
  installed,      \* connections on which some probe installed an identity
  started,        \* probes started so far
  pc,             \* where the running probe is
  client,         \* the connection the probe holds
  operation, table, jwtClaims,   \* the probe's arguments
  pkValues,       \* primary-key value of the row chosen for UPDATE / DELETE
  result,         \* the value the probe is about to return
  attempted,      \* what the operation attempt returned, and the error it caught
  escaped,        \* the probe's outer catch block ran
  outcome,        \* what the caller got: a ProbeResult, or "RAISED"
  log,            \* statements sent on the connection by the running probe
  before,         \* the committed rows when the probe was called
  cancelled       \* the run was cancelled while the probe was in flight

vars ==
  << committed, session, checkedOut, installed, started, pc, client, operation,
     table, jwtClaims, pkValues, result, attempted, escaped, outcome, log,
     before, cancelled >>

(***************************************************************************)
(* The state of a test run (commands/test.command.ts) and of a snapshot or *)
(* diff run (the snapshot and diff commands, shared/diff.ts).  The probe   *)
(* engine's specification leaves these at rest, and the specifications of  *)
(* the runs leave the probe engine's variables at rest.                    *)
(***************************************************************************)
VARIABLES
  config,          \* config.tables: the entries of the policy file, in file order
  options,         \* the command line of the test run: table, allSchemas, parallel
  probeOutcome,    \* what a probe of each (tableKey, scenario, op) yields
  runPc,           \* where the test run is
  executionConfig, \* what the action hands to executeAllPolicyTestsForConfiguration
  currentIndex,    \* executePromisesInParallel: the next factory to start
  tableResults,    \* executePromisesInParallel: its results array
  workers,         \* executePromisesInParallel: the state of each execute()
  completed,       \* the factories whose results were stored, in that order
  cursor,          \* sequential mode: the table entry and scenario reached
  testResults,     \* the TestResults record of the run
  exitCode         \* the code the test run handed to process.exit

VARIABLES
  command,          \* "snapshot" or "diff"
  parallelOption,   \* the text given to --parallel, or Undefined
  previousSnapshot, \* the snapshot file's content, or Undefined
  liveSnapshot,     \* the matrix the probes of the live run yield
  diffPc,           \* where the snapshot or diff run is
  concurrency,      \* the concurrency handed to executePromisesInParallel
  currentSnapshot,  \* the snapshot createPolicySnapshot returned
  comparison,       \* the SnapshotComparisonResult
  diffExit          \* the exit code of the snapshot or diff run

runVars ==
  << config, options, probeOutcome, runPc, executionConfig, currentIndex,
     tableResults, workers, completed, cursor, testResults, exitCode >>

diffVars ==
  << command, parallelOption, previousSnapshot, liveSnapshot, diffPc,
     concurrency, currentSnapshot, comparison, diffExit >>

\* The snapshot file (FILE_PATHS.SNAPSHOT_FILE) as the snapshot command writes
\* it and the diff command reads it.
VARIABLES
  policySnapshot, \* the PolicySnapshot handed to writePolicySnapshotToFile
  snapshotFile,  \* the text of the snapshot file, or NoFile
  loaded,        \* what loadPolicySnapshotFromFile returned
  filePc         \* where the write and the load are

fileVars == << policySnapshot, snapshotFile, loaded, filePc >>

\* establishValidatedDatabaseConnection (core/db.ts) under withDatabaseConnection.
VARIABLES
  loginRole,         \* what the database says about the role of the URL
  connectionConfig,  \* the DatabaseConnectionConfig of the command
  dbFault,           \* the await of the connection set-up that rejects, if any
  connPc,            \* where establishValidatedDatabaseConnection is
  privileges,        \* the DatabaseRolePrivileges introspected
  clientsOut,        \* clients of the new pool checked out and not released
  established,       \* what the caller got: the pool, or an error
  probesStarted      \* the command's handler started its probes on the pool

connVars ==
  << loginRole, connectionConfig, dbFault, connPc, privileges, clientsOut,
     established, probesStarted >>

\* lintPolicies (core/lint.ts).
VARIABLES
  policies,     \* the rows fetchPoliciesForLinting returned
  lintCursor,   \* the policy the outer loop of lintPolicies has reached
  issues,       \* the issues pushed so far
  lintResults   \* the LintResults returned

lintVars == << policies, lintCursor, issues, lintResults >>

\* generateCoverageReport (core/coverage.ts).
VARIABLES
  discovered,      \* the tables discoverAllTables returned
  accessAnswers,   \* what a probe of each (role, operation) yields
  coveragePc,      \* where generateCoverageReport is
  allTables,       \* the tables, sorted by schema and name
  tableCursor,     \* the table the loop has reached
  probeCursor,     \* the probe of the table that comes next
  tableCoverage,   \* the TableCoverage under construction
  report,          \* report.tables
  probesIssued,    \* the probes called so far: schema, name, op, claims
  coverageClient   \* generateCoverageReport holds its pooled client

coverageVars ==
  << discovered, accessAnswers, coveragePc, allTables, tableCursor,
     probeCursor, tableCoverage, report, probesIssued, coverageClient >>

\* executePromisesInParallel (shared/parallel.ts) running tasks that await
\* one probe after another, in a command that exits on a failure.
VARIABLES
  promiseFactories,  \* the tasks: for each, what each of its probes does
  execConcurrency,   \* the concurrency handed to executePromisesInParallel
  execIndex,         \* currentIndex
  execWorkers,       \* the state of each execute()
  clientsInUse,      \* clients checked out of the pool and not released
  processState       \* the state of the command's process

poolVars ==
  << promiseFactories, execConcurrency, execIndex, execWorkers, clientsInUse,
     processState >>

toolVars == << fileVars, connVars, lintVars, coverageVars, poolVars >>

allVars == << vars, runVars, diffVars, toolVars >>

\* A step of the probe engine leaves the commands' runs as they are.
CommandsAtRest == UNCHANGED << runVars, diffVars, toolVars >>

dbVars == << committed, session, installed, log >>
argVars == << operation, table, jwtClaims, started, before, cancelled >>

None == "<none>"

\* No test run is under way.
RunIdle ==
  /\ config = <<>>
  /\ options = None
  /\ probeOutcome = None
  /\ runPc = None
  /\ executionConfig = None
  /\ currentIndex = 0
  /\ tableResults = <<>>
  /\ workers = <<>>
  /\ completed = <<>>
  /\ cursor = None
  /\ testResults = None
  /\ exitCode = None

\* No snapshot or diff run is under way.
DiffIdle ==
  /\ command = None
  /\ parallelOption = None
  /\ previousSnapshot = None
  /\ liveSnapshot = None
  /\ diffPc = None
  /\ concurrency = None
  /\ currentSnapshot = None
  /\ comparison = None
  /\ diffExit = None

\* Nothing is written to or read from the snapshot file.
FileIdle ==
  /\ policySnapshot = None
  /\ snapshotFile = None
  /\ loaded = None
  /\ filePc = None

\* No connection is being established.
ConnIdle ==
  /\ loginRole = None
  /\ connectionConfig = None
  /\ dbFault = None
  /\ connPc = None
  /\ privileges = None
  /\ clientsOut = 0
  /\ established = None
  /\ probesStarted = FALSE

\* No lint run is under way.
LintIdle ==
  /\ policies = <<>>
  /\ lintCursor = 0
  /\ issues = <<>>
  /\ lintResults = None

\* No coverage report is being built.
CoverageIdle ==
  /\ discovered = <<>>
  /\ accessAnswers = None
  /\ coveragePc = None
  /\ allTables = <<>>
  /\ tableCursor = 0
  /\ probeCursor = 0
  /\ tableCoverage = <<>>
  /\ report = <<>>
  /\ probesIssued = <<>>
  /\ coverageClient = FALSE

\* No task is handed to the executor.
PoolIdle ==
  /\ promiseFactories = <<>>
  /\ execConcurrency = 0
  /\ execIndex = 0
  /\ execWorkers = <<>>
  /\ clientsInUse = 0
  /\ processState = None

ToolsIdle == FileIdle /\ ConnIdle /\ LintIdle /\ CoverageIdle /\ PoolIdle

NotAttempted == [done |-> FALSE, result |-> None, error |-> NoError]
InFlight ==
  { "begin", "setClaims", "setRole", "setLegacy", "savepoint", "select",
    "introspectCols", "insert", "introspectPk", "selectPk", "mutate",
    "rollbackTo", "finally" }

\* The probe engine before any probe.
EngineInit ==
  /\ committed = [t \in Tables |-> InitialRows(t)]
  /\ session = [c \in Conns |-> FreshSession]
  /\ checkedOut = {}
  /\ installed = [c \in Conns |-> FALSE]
  /\ started = 0
  /\ pc = "idle"
  /\ client = NoClient
  /\ operation = "SELECT"
  /\ table = "todos"
  /\ jwtClaims = [role |-> Undefined, sub |-> Undefined]
  /\ pkValues = <<>>
  /\ result = None
  /\ attempted = NotAttempted
  /\ escaped = FALSE
  /\ outcome = None
  /\ log = <<>>
  /\ before = [t \in Tables |-> InitialRows(t)]
  /\ cancelled = FALSE

Init == EngineInit /\ RunIdle /\ DiffIdle /\ ToolsIdle

(***************************************************************************)
(* The order of the awaited steps of executeRlsPolicyProbeForOperation's   *)
(* try block; the finally block follows the last one.                      *)
(***************************************************************************)
\* Faulty variant: the attempt runs before the savepoint is established.
ProbeStepsSavepointLate ==
  << "begin", "setClaims", "setRole", "setLegacy", "attempt", "savepoint",
     "rollbackTo" >>

ProbeSteps ==
  << "begin", "setClaims", "setRole", "setLegacy", "savepoint", "attempt",
     "rollbackTo" >>

After(step) ==
  IF \E i \in 1..(Len(ProbeSteps) - 1) : ProbeSteps[i] = step
    THEN ProbeSteps[(CHOOSE i \in 1..(Len(ProbeSteps) - 1) : ProbeSteps[i] = step) + 1]
    ELSE "finally"

\* First awaited query of the attempt, by the switch on the operation.
FirstAttemptStep(op) ==
  CASE op = "SELECT" -> "select"
    [] op = "INSERT" -> "introspectCols"
    [] op \in {"UPDATE", "DELETE"} -> "introspectPk"

\* The step control reaches when it enters `step`: the legacy role write is
\* skipped when its guard is false, the attempt starts with its first query.
Enter(step, claims, op) ==
  LET s == IF step = "setLegacy" /\ ~LegacyRoleNeeded(claims)
             THEN After(step) ELSE step
  IN IF s = "attempt" THEN FirstAttemptStep(op) ELSE s

Advance(step) == Enter(After(step), jwtClaims, operation)

(***************************************************************************)
(* conn.query(stmt): the environment picks the response r.                 *)
(***************************************************************************)
QueryOn(conn, stmt, r) ==
  /\ r \in Responses(session[conn], committed, stmt)
  /\ session' = [session EXCEPT
                   ![conn] = SessionAfter(session[conn], committed, stmt, r)]
  /\ committed' = CommittedAfter(session[conn], committed, stmt, r)
  /\ installed' =
       IF r.ok /\ stmt.sql \in {"SET_CONFIG", "SET_LOCAL_ROLE"}
            /\ session[conn].tx = "active"
         THEN [installed EXCEPT ![conn] = TRUE] ELSE installed
  /\ log' = Append(log, [sql |-> stmt.sql, name |-> stmt.name,
                         value |-> stmt.value, ok |-> r.ok,
                         rows |-> r.rows, rowCount |-> r.rowCount])

Query(stmt, r) == QueryOn(client, stmt, r)

\* The connection the statements of the attempt are sent on: the probe's own
\* client, handed down to every execute...AndEvaluateResult function.
\* Faulty variant: the statement goes through the pool (pool.query), on
\* another connection, outside the probe's transaction.
PoolQueryConnection == CHOOSE c \in Conns : c # client
AttemptConnection == client

AttemptQuery(stmt, r) == QueryOn(AttemptConnection, stmt, r)
AttemptResponses(stmt) == Responses(session[AttemptConnection], committed, stmt)

\* catch (error) { return 'ERROR'; } of the probe, then its finally block.
CatchOuter ==
  /\ result' = "ERROR"
  /\ escaped' = TRUE
  /\ pc' = "finally"

\* A step of the try block outside the attempt: go on, or throw to the catch.
TryStep(step, stmt) ==
  /\ pc = step
  /\ \E r \in Responses(session[client], committed, stmt) :
       /\ Query(stmt, r)
       /\ IF r.ok
            THEN pc' = Advance(step) /\ UNCHANGED << result, escaped >>
            ELSE CatchOuter
  /\ UNCHANGED << checkedOut, client, pkValues, attempted, outcome, argVars >>

(***************************************************************************)
(* The probe: executeRlsPolicyProbeForOperation.                           *)
(***************************************************************************)
\* A caller invokes the probe with some operation, table and claims.
StartProbe ==
  /\ pc \in {"idle", "done"}
  /\ CommandsAtRest
  /\ started < MaxProbes
  /\ \E op \in Operations, t \in Tables, claims \in ClaimsInputs :
       /\ operation' = op
       /\ table' = t
       /\ jwtClaims' = claims
  /\ started' = started + 1
  /\ before' = committed
  /\ pc' = "connect"
  /\ client' = NoClient
  /\ pkValues' = <<>>
  /\ result' = None
  /\ attempted' = NotAttempted
  /\ escaped' = FALSE
  /\ outcome' = None
  /\ log' = <<>>
  /\ UNCHANGED << committed, session, checkedOut, installed, cancelled >>

\* const client = await pool.connect(): the pool hands out an idle connection.
Connect ==
  /\ pc = "connect"
  /\ CommandsAtRest
  /\ \E c \in Conns \ checkedOut :
       /\ client' = c
       /\ checkedOut' = checkedOut \cup {c}
  /\ pc' = Enter(ProbeSteps[1], jwtClaims, operation)
  /\ UNCHANGED << dbVars, pkValues, result, attempted, escaped, outcome, argVars >>

\* pool.connect() rejects (no connection could be had in time); the call is
\* outside the try block, so the rejection reaches the caller.
ConnectFails ==
  /\ pc = "connect"
  /\ CommandsAtRest
  /\ outcome' = "RAISED"
  /\ pc' = "done"
  /\ UNCHANGED << dbVars, checkedOut, client, pkValues, result, attempted,
                  escaped, argVars >>

BeginStmt == Stmt("BEGIN", "", "")
initializeTransactionalTestSession ==
  /\ pc = "begin"
  /\ CommandsAtRest
  /\ TryStep("begin", BeginStmt)

ClaimsStmt(claims) ==
  Stmt("SET_CONFIG", "request.jwt.claims", JSONstringify(claims))
setJwtClaimsInDatabaseSession ==
  /\ pc = "setClaims"
  /\ CommandsAtRest
  /\ TryStep("setClaims", ClaimsStmt(jwtClaims))

RoleStmt(claims) ==
  Stmt("SET_LOCAL_ROLE", determinePostgresqlRoleFromJwtClaims(claims), "")
setUserRoleBasedOnJwtClaims ==
  /\ pc = "setRole"
  /\ CommandsAtRest
  /\ TryStep("setRole", RoleStmt(jwtClaims))

LegacyStmt(claims) == Stmt("SET_CONFIG", "role", claims.role)
setLegacyRoleConfigurationIfNeeded ==
  /\ pc = "setLegacy"
  /\ CommandsAtRest
  /\ TryStep("setLegacy", LegacyStmt(jwtClaims))

SavepointStmt == Stmt("SAVEPOINT", "test_probe", "")
createSavepointForOperationTest ==
  /\ pc = "savepoint"
  /\ CommandsAtRest
  /\ TryStep("savepoint", SavepointStmt)

\* Faulty variant: the changes of the attempt are committed, not rolled back.
CommitStmt == Stmt("COMMIT", "", "")
RollbackToStmt == Stmt("ROLLBACK_TO", "test_probe", "")
rollbackToSavepointAfterTest ==
  /\ pc = "rollbackTo"
  /\ CommandsAtRest
  /\ TryStep("rollbackTo", RollbackToStmt)

(***************************************************************************)
(* attemptDatabaseOperationWithRlsEvaluation: a try block of its own whose *)
(* catch turns every error into a ProbeResult.                             *)
(***************************************************************************)
AttemptReturns(v, e) ==
  /\ attempted' = [done |-> TRUE, result |-> v, error |-> e]
  /\ result' = v
  /\ pc' = Advance("attempt")

AttemptCatches(e) == AttemptReturns(interpretDatabaseErrorAsProbeResult(e), e)

SelectResult(r) == IF Len(r.rows) > 0 THEN "ALLOW" ELSE "DENY"
\* Faulty variant: a statement that ran counts as allowed, whatever it affected.
RowCountResultAtLeastZero(r) == IF r.rowCount >= 0 THEN "ALLOW" ELSE "DENY"
RowCountResult(r) == IF r.rowCount > 0 THEN "ALLOW" ELSE "DENY"

executeSelectOperationAndEvaluateResult ==
  /\ pc = "select"
  /\ CommandsAtRest
  /\ LET stmt == Stmt("SELECT", table, "") IN
     \E r \in AttemptResponses(stmt) :
       /\ AttemptQuery(stmt, r)
       /\ IF r.ok THEN AttemptReturns(SelectResult(r), NoError)
                  ELSE AttemptCatches(r.error)
  /\ UNCHANGED << checkedOut, client, pkValues, escaped, outcome, argVars >>

introspectTableColumnsForInsertOperation ==
  /\ pc = "introspectCols"
  /\ CommandsAtRest
  /\ LET stmt == Stmt("INTROSPECT_COLUMNS", table, "") IN
     \E r \in AttemptResponses(stmt) :
       /\ AttemptQuery(stmt, r)
       /\ IF ~r.ok THEN AttemptCatches(r.error)
          ELSE IF Len(r.rows) = 0 THEN AttemptReturns("ERROR", NoError)
          ELSE pc' = "insert" /\ UNCHANGED << attempted, result >>
  /\ UNCHANGED << checkedOut, client, pkValues, escaped, outcome, argVars >>

\* Names of the columns that have no default: the ones the INSERT lists.
generateInsertStatementComponents(columns) ==
  SelectSeq(columns, LAMBDA col : ~col.has_default)

InsertStmt(t) ==
  LET columnNames == generateInsertStatementComponents(ColumnsOf(t))
  IN IF Len(columnNames) > 0 THEN Stmt("INSERT", t, columnNames)
                             ELSE Stmt("INSERT_DEFAULT", t, <<>>)

executeInsertOperationAndEvaluateResult ==
  /\ pc = "insert"
  /\ CommandsAtRest
  /\ \E r \in AttemptResponses(InsertStmt(table)) :
       /\ AttemptQuery(InsertStmt(table), r)
       /\ IF r.ok THEN AttemptReturns("ALLOW", NoError)
                  ELSE AttemptCatches(r.error)
  /\ UNCHANGED << checkedOut, client, pkValues, escaped, outcome, argVars >>

\* findTargetRowForMutation, first query: the primary-key columns.
introspectPrimaryKeyColumns ==
  /\ pc = "introspectPk"
  /\ CommandsAtRest
  /\ LET stmt == Stmt("INTROSPECT_PK", table, "") IN
     \E r \in AttemptResponses(stmt) :
       /\ AttemptQuery(stmt, r)
       /\ IF ~r.ok THEN AttemptCatches(r.error)
          ELSE IF Len(r.rows) = 0 THEN AttemptCatches(NoPrimaryKeyError(table))
          ELSE pc' = "selectPk" /\ UNCHANGED << attempted, result >>
  /\ UNCHANGED << checkedOut, client, pkValues, escaped, outcome, argVars >>

\* What UPDATE / DELETE return when findTargetRowForMutation returns null.
NoTargetRowResult == "DENY"

\* findTargetRowForMutation, second query: the first visible row.
findTargetRowForMutation ==
  /\ pc = "selectPk"
  /\ CommandsAtRest
  /\ LET stmt == Stmt("SELECT_PK", table, PrimaryKeyOf(table)) IN
     \E r \in AttemptResponses(stmt) :
       /\ AttemptQuery(stmt, r)
       /\ IF ~r.ok
            THEN AttemptCatches(r.error) /\ UNCHANGED pkValues
          ELSE IF Len(r.rows) = 0
            THEN AttemptReturns(NoTargetRowResult, NoError) /\ UNCHANGED pkValues
          ELSE /\ pkValues' = <<r.rows[1]>>
               /\ pc' = "mutate"
               /\ UNCHANGED << attempted, result >>
  /\ UNCHANGED << checkedOut, client, escaped, outcome, argVars >>

\* The targeted UPDATE (SET pk = pk) or DELETE, WHERE pk = $1.
MutationStmt(op, t, values) == Stmt(op, t, values[1])

executeMutationAndEvaluateResult ==
  /\ pc = "mutate"
  /\ CommandsAtRest
  /\ LET stmt == MutationStmt(operation, table, pkValues) IN
     \E r \in AttemptResponses(stmt) :
       /\ AttemptQuery(stmt, r)
       /\ IF r.ok THEN AttemptReturns(RowCountResult(r), NoError)
                  ELSE AttemptCatches(r.error)
  /\ UNCHANGED << checkedOut, client, pkValues, escaped, outcome, argVars >>

(***************************************************************************)
(* finally { await ROLLBACK; client.release(); }                           *)
(***************************************************************************)
\* Faulty variant: the cleanup only returns to the savepoint once more.
RollbackToSavepointAgain == Stmt("ROLLBACK_TO", "test_probe", "")
RollbackStmt == Stmt("ROLLBACK", "", "")

rollbackEntireTransactionForCleanup ==
  /\ pc = "finally"
  /\ CommandsAtRest
  /\ \E r \in Responses(session[client], committed, RollbackStmt) :
       /\ Query(RollbackStmt, r)
       /\ IF r.ok
            THEN \* client.release(), then the pending return completes
                 /\ checkedOut' = checkedOut \ {client}
                 /\ outcome' = result
            ELSE \* the rejection leaves the finally block: release() is
                 \* not reached and the probe's promise rejects
                 /\ checkedOut' = checkedOut
                 /\ outcome' = "RAISED"
  /\ pc' = "done"
  /\ UNCHANGED << client, pkValues, result, attempted, escaped, argVars >>

\* The run is cancelled (the process ends) while a probe is in flight: its
\* connection closes and the server aborts whatever transaction was open.
Cancel ==
  /\ pc \in InFlight
  /\ CommandsAtRest
  /\ cancelled' = TRUE
  /\ pc' = "cancelled"
  /\ session' = [session EXCEPT
                   ![client] = [EndOfTransaction(@) EXCEPT !.lost = TRUE]]
  /\ UNCHANGED << committed, checkedOut, installed, started, client, operation,
                  table, jwtClaims, pkValues, result, attempted, escaped,
                  outcome, log, before >>

Next ==
  \/ StartProbe
  \/ Connect
  \/ ConnectFails
  \/ initializeTransactionalTestSession
  \/ setJwtClaimsInDatabaseSession
  \/ setUserRoleBasedOnJwtClaims
  \/ setLegacyRoleConfigurationIfNeeded
  \/ createSavepointForOperationTest
  \/ executeSelectOperationAndEvaluateResult
  \/ introspectTableColumnsForInsertOperation
  \/ executeInsertOperationAndEvaluateResult
  \/ introspectPrimaryKeyColumns
  \/ findTargetRowForMutation
  \/ executeMutationAndEvaluateResult
  \/ rollbackToSavepointAfterTest
  \/ rollbackEntireTransactionForCleanup
  \/ Cancel

Spec == Init /\ [][Next]_allVars

(***************************************************************************)
(* Properties of the probe engine.                                         *)
(***************************************************************************)
Issued(kind) == \E i \in 1..Len(log) : log[i].sql = kind
Succeeded(kinds) ==
  \E i \in 1..Len(log) : log[i].sql \in kinds /\ log[i].ok /\ log[i].rowCount > 0
AllSucceeded == \A i \in 1..Len(log) : log[i].ok

\* C1 (containment): whenever a probe has returned to its caller, whatever
\* its operation, table, claims and outcome (a ProbeResult or a rejection),
\* the committed rows of every table are those committed when it was called.
Containment == pc = "done" => committed = before

\* A probe whose INSERT succeeded inside the transaction has returned ALLOW.
ContainmentWitness ==
  /\ pc = "done"
  /\ outcome = "ALLOW"
  /\ Succeeded({"INSERT", "INSERT_DEFAULT"})

\* C2 (rollback survives cancellation): no probe ever sends COMMIT, and when
\* the run is cancelled while a probe is anywhere between BEGIN and its final
\* ROLLBACK, nothing the probe did inside its transaction is committed.
RollbackSurvivesCancellation ==
  /\ ~Issued("COMMIT")
  /\ cancelled => committed = before

\* The probe was cancelled right after a DELETE or INSERT that succeeded.
CancellationWitness ==
  /\ cancelled
  /\ Len(log) > 0
  /\ log[Len(log)].sql \in {"INSERT", "INSERT_DEFAULT", "DELETE"}
  /\ log[Len(log)].ok
  /\ log[Len(log)].rowCount > 0
  /\ Issued("SAVEPOINT")

\* C3 (classification totality): every call of the probe ends with exactly
\* one of ALLOW, DENY, ERROR, SKIPPED handed to the caller and never with a
\* rejection, whichever statement fails and also when pool.connect() fails.
ClassificationTotality ==
  pc = "done" => outcome \in {"ALLOW", "DENY", "ERROR", "SKIPPED"}

\* C4 (release on every path): a probe that acquired a connection has given
\* it back to the pool by the time it finishes, also when the final ROLLBACK
\* fails.
ConnectionReleased ==
  (pc = "done" /\ client # NoClient) => client \notin checkedOut

\* The stage of the protocol a statement belongs to.
Stage(entry) ==
  CASE entry.sql = "BEGIN" -> "begin"
    [] entry.sql = "SET_CONFIG" /\ entry.name = "request.jwt.claims" -> "claims"
    [] entry.sql = "SET_LOCAL_ROLE" -> "role"
    [] entry.sql = "SET_CONFIG" /\ entry.name = "role" -> "legacy"
    [] entry.sql = "SAVEPOINT" -> "savepoint"
    [] entry.sql = "ROLLBACK_TO" -> "rollbackTo"
    [] entry.sql = "ROLLBACK" -> "rollback"
    [] OTHER -> "attempt"

StageOrder ==
  << "begin", "claims", "role", "legacy", "savepoint", "attempt", "rollbackTo",
     "rollback" >>
Position(stage) == CHOOSE k \in 1..Len(StageOrder) : StageOrder[k] = stage

\* Stages that must have succeeded before a statement of `stage` is sent.
Prerequisites(stage) ==
  CASE stage = "claims" -> {"begin"}
    [] stage = "role" -> {"begin", "claims"}
    [] stage \in {"legacy", "savepoint"} -> {"begin", "claims", "role"}
    [] stage \in {"attempt", "rollbackTo"} -> {"begin", "claims", "role", "savepoint"}
    [] OTHER -> {}

Clean(cs) == cs.tx = "idle" /\ cs.role = LoginRole /\ ~cs.jwt.set

\* C6 (session state does not escape): every connection that sits in the
\* pool, and so every connection the pool hands to a later user, carries
\* neither the role nor the request.jwt.claims / role settings of an earlier
\* probe.
SessionStateDoesNotEscape ==
  /\ \A c \in Conns \ checkedOut : Clean(session[c])
  /\ pc = "begin" => Clean(session[client])

\* A later probe was handed a connection on which an earlier probe had
\* installed an identity.
SessionEscapeWitness ==
  /\ pc = "begin"
  /\ started > 1
  /\ installed[client]

\* C7 as stated (identity install): SET LOCAL ROLE names authenticated exactly
\* when claims.role is "authenticated" and anon otherwise, and once the
\* install is through, the role GUC was written through set_config exactly
\* when claims.role is present and different from "authenticated".
IdentityInstallAsStated ==
  /\ \A i \in 1..Len(log) :
       log[i].sql = "SET_LOCAL_ROLE" =>
         log[i].name =
           (IF jwtClaims.role = "authenticated" THEN "authenticated" ELSE "anon")
  /\ \A i \in 1..Len(log) :
       Stage(log[i]) = "legacy" => log[i].value = jwtClaims.role
  /\ Issued("SAVEPOINT") =>
       ((\E i \in 1..Len(log) : Stage(log[i]) = "legacy")
          <=> (jwtClaims.role # Undefined /\ jwtClaims.role # "authenticated"))

\* C7 amended: as stated, but the role GUC is written exactly when claims.role
\* is truthy (present and not the empty string) and different from
\* "authenticated".
IdentityInstall ==
  /\ \A i \in 1..Len(log) :
       log[i].sql = "SET_LOCAL_ROLE" =>
         log[i].name =
           (IF jwtClaims.role = "authenticated" THEN "authenticated" ELSE "anon")
  /\ \A i \in 1..Len(log) :
       Stage(log[i]) = "legacy" => log[i].value = jwtClaims.role
  /\ Issued("SAVEPOINT") =>
       ((\E i \in 1..Len(log) : Stage(log[i]) = "legacy")
          <=> jwtClaims.role \notin {Undefined, "", "authenticated"})

\* The install went through for claims whose role is the empty string: anon
\* was assumed and the role GUC was not written.
IdentityInstallWitness ==
  /\ Issued("SAVEPOINT")
  /\ jwtClaims.role = ""
  /\ \E i \in 1..Len(log) : log[i].sql = "SET_LOCAL_ROLE" /\ log[i].name = "anon"
  /\ ~\E i \in 1..Len(log) : Stage(log[i]) = "legacy"

Mutations == {"UPDATE", "DELETE"}
MutationEntries == { i \in 1..Len(log) : log[i].sql \in Mutations }

\* C8 (no primary key): an UPDATE or DELETE probe of a table without primary
\* key sends no UPDATE or DELETE, its attempt yields SKIPPED, and the caller
\* never gets ALLOW or DENY.
NoPrimaryKeySkipped ==
  (operation \in Mutations /\ PrimaryKeyOf(table) = <<>>) =>
     /\ MutationEntries = {}
     /\ (attempted.done /\ AllSucceeded) => attempted.result = "SKIPPED"
     /\ pc = "done" => outcome \notin {"ALLOW", "DENY"}

\* C9 (targeted mutation): for UPDATE or DELETE on a table with a primary key
\* whose attempt ran without error: if the primary-key SELECT showed no row,
\* the attempt yields DENY and no UPDATE or DELETE was sent; otherwise exactly
\* one statement was sent, it is the probe's operation on the probe's table
\* restricted to the primary-key value of the first visible row, and the
\* attempt yields ALLOW when its rowCount > 0 and DENY when it is 0.  When no
\* statement of the probe failed, that is what the caller gets.
TargetedMutation ==
  (operation \in Mutations /\ PrimaryKeyOf(table) # <<>>
     /\ attempted.done /\ attempted.error = NoError) =>
    /\ \E s \in 1..Len(log) :
         /\ log[s].sql = "SELECT_PK"
         /\ log[s].ok
         /\ IF Len(log[s].rows) = 0
              THEN /\ attempted.result = "DENY"
                   /\ MutationEntries = {}
              ELSE /\ Cardinality(MutationEntries) = 1
                   /\ \A m \in MutationEntries :
                        /\ m > s
                        /\ log[m].sql = operation
                        /\ log[m].name = table
                        /\ log[m].value = log[s].rows[1]
                        /\ attempted.result =
                             (IF log[m].rowCount > 0 THEN "ALLOW" ELSE "DENY")
    /\ (pc = "done" /\ AllSucceeded) => outcome = attempted.result

\* A DELETE probe found a visible row, its DELETE affected no row, and the
\* caller got DENY.
TargetedMutationWitness ==
  /\ pc = "done"
  /\ operation = "DELETE"
  /\ AllSucceeded
  /\ \E m \in MutationEntries : log[m].rowCount = 0
  /\ outcome = "DENY"

\* C10 (error classification): an error caught by the attempt yields DENY when
\* its SQLSTATE is 42501 or its message contains "permission denied" or
\* "policy", and ALLOW otherwise (SQLSTATE 23505 included); an exception that
\* escapes the attempt block makes the probe yield ERROR.
ErrorClassification ==
  /\ (attempted.done /\ attempted.error # NoError) =>
       attempted.result =
         (IF \/ attempted.error.code = "42501"
             \/ \E k \in 1..Len(attempted.error.message) :
                  attempted.error.message[k] \in {"permission denied", "policy"}
            THEN "DENY" ELSE "ALLOW")
  /\ (pc = "done" /\ escaped) => outcome = "ERROR"

(***************************************************************************)
(* THE TEST RUN (commands/test.command.ts)                                 *)
(*                                                                         *)
(* The policy file, the command line and the database are the inputs of a  *)
(* run.  config.tables keeps the file's order of table entries; each entry *)
(* has its scenarios in file order.                                        *)
(***************************************************************************)
MaxTables == 3        \* table entries in the policy file

TableKeys == {"public.posts", "public.users", "auth.users"}

\* tableKey.split('.')
split(tableKey) ==
  CASE tableKey = "public.posts" -> <<"public", "posts">>
    [] tableKey = "public.users" -> <<"public", "users">>
    [] tableKey = "auth.users" -> <<"auth", "users">>

\* `${schema}.${table}`
TableKeyOf(schema, t) ==
  CHOOSE k \in TableKeys : split(k) = <<schema, t>>

\* tableKey.startsWith('public.')
startsWithPublic(tableKey) ==
  Len(split(tableKey)) > 1 /\ split(tableKey)[1] = "public"

\* The order String.prototype.localeCompare puts the names of the model in.
Collation ==
  << "anonymous", "auth.users", "authenticated", "public.posts",
     "public.users" >>

Rank(seq, x) == CHOOSE i \in 1..Len(seq) : seq[i] = x

localeCompare(a, b) ==
  IF Rank(Collation, a) < Rank(Collation, b) THEN 0 - 1
  ELSE IF Rank(Collation, a) > Rank(Collation, b) THEN 1 ELSE 0

SUPPORTED_DATABASE_OPERATIONS == <<"SELECT", "INSERT", "UPDATE", "DELETE">>

Expecting(select, update) ==
  [op \in Operations |->
     IF op = "SELECT" THEN select ELSE IF op = "UPDATE" THEN update
     ELSE Undefined]

\* The scenarios a policy file of the model may list for a table.
AnonymousScenario ==
  [name |-> "anonymous", expected |-> Expecting("DENY", Undefined)]
AuthenticatedScenario ==
  [name |-> "authenticated", expected |-> Expecting("ALLOW", "ALLOW")]

ScenarioLists ==
  { <<>>, <<AnonymousScenario>>, <<AuthenticatedScenario>>,
    <<AuthenticatedScenario, AnonymousScenario>> }

DistinctSeqs(S, n) ==
  { q \in UNION { [1..k -> S] : k \in 0..n } :
      \A i, j \in 1..Len(q) : i # j => q[i] # q[j] }

\* Object.entries(config.tables) of the policy files of the model.
Configs ==
  UNION { { [i \in 1..Len(keys) |->
               [tableKey |-> keys[i], test_scenarios |-> lists[i]]] :
            lists \in [1..Len(keys) -> ScenarioLists] } :
          keys \in DistinctSeqs(TableKeys, MaxTables) }

\* What a text given to --parallel may be: the characters of the option.
NoOption == <<Undefined>>       \* the option is not on the command line
ParallelTexts ==
  { <<"0">>, <<"2">>, <<"5", "0">>, <<"-", "3">>, <<"a", "b", "c">> }

RunOptions ==
  [ table : {Undefined, "public.posts"},
    allSchemas : BOOLEAN,
    parallel : ParallelTexts \cup {NoOption} ]

\* A database, as the probes of a run see it: the outcome by operation.
SelectOutcomes == {"ALLOW", "DENY"}
MutationOutcomes == {"ALLOW", "ERROR", "SKIPPED"}
Databases ==
  { [op \in Operations |-> IF op \in Mutations THEN m ELSE r] :
      r \in SelectOutcomes, m \in MutationOutcomes }

(***************************************************************************)
(* Numbers of the command line.  What parseInt returns is NaN or a         *)
(* number; the arithmetic after it is on integers.                         *)
(***************************************************************************)
NaN == [nan |-> TRUE, n |-> 0]
Number(n) == [nan |-> FALSE, n |-> n]

DigitValue(ch) ==
  CASE ch = "0" -> 0 [] ch = "1" -> 1 [] ch = "2" -> 2 [] ch = "3" -> 3
    [] ch = "4" -> 4 [] ch = "5" -> 5 [] ch = "6" -> 6 [] ch = "7" -> 7
    [] ch = "8" -> 8 [] ch = "9" -> 9

IsDigit(ch) == ch \in {"0", "1", "2", "3", "4", "5", "6", "7", "8", "9"}

\* The digits a text starts with, read as a decimal number.
RECURSIVE LeadingDigits(_, _)
LeadingDigits(text, acc) ==
  IF text = <<>> \/ ~IsDigit(Head(text)) THEN acc
  ELSE LeadingDigits(Tail(text), 10 * acc + DigitValue(Head(text)))

\* parseInt(value) and parseInt(value, 10): an optional sign, then the
\* digits the text starts with; NaN when there is none (undefined included).
parseInt(text) ==
  IF text = NoOption THEN NaN
  ELSE LET signed == text # <<>> /\ Head(text) \in {"-", "+"}
           digits == IF signed THEN Tail(text) ELSE text
       IN IF digits = <<>> \/ ~IsDigit(Head(digits)) THEN NaN
          ELSE IF signed /\ Head(text) = "-"
               THEN Number(0 - LeadingDigits(digits, 0))
               ELSE Number(LeadingDigits(digits, 0))

\* x || y for what parseInt returned: NaN and 0 are falsy.
OrElse(x, y) == IF x.nan \/ x.n = 0 THEN y ELSE x.n

MathMax(a, b) == IF a > b THEN a ELSE b
MathMin(a, b) == IF a < b THEN a ELSE b

\* commander: the text of an option, or the default the option declares.
OptionOrDefault(text, default) == IF text = NoOption THEN default ELSE text

TestParallelDefault == <<"4">>

\* const parallelism = Math.min(Math.max(parseInt(options.parallel) || 1, 1), 10)
TestParallelism(parallel) ==
  MathMin(MathMax(OrElse(parseInt(parallel), 1), 1), 10)

(***************************************************************************)
(* A probe of the test run.  executeRlsPolicyProbeDetailed returns the     *)
(* ProbeOutcome of the specification: a result among ALLOW, DENY, ERROR    *)
(* and SKIPPED, and a reason with ERROR and SKIPPED.                       *)
(***************************************************************************)
ReasonOf(outcome_) ==
  CASE outcome_ = "SKIPPED" -> "no primary key"
    [] outcome_ = "ERROR" -> "probe could not be executed"
    [] OTHER -> Undefined

executeRlsPolicyProbeDetailed(db, schema, t, op) ==
  [result |-> db[op], reason |-> ReasonOf(db[op])]

\* passed: probeResult.result === 'SKIPPED' ? false : passed
Passed(actual, expected) ==
  IF actual = "SKIPPED" THEN FALSE ELSE actual = expected

\* The TestResultDetail executeTestScenarioForAllOperations pushes.
TestResultDetail(db, schema, t, scenario, op) ==
  LET expected == scenario.expected[op]
      probeResult == executeRlsPolicyProbeDetailed(db, schema, t, op)
  IN [ table_key |-> TableKeyOf(schema, t),
       scenario_name |-> scenario.name,
       operation |-> op,
       expected |-> expected,
       actual |-> probeResult.result,
       passed |-> Passed(probeResult.result, expected),
       error_message |-> probeResult.reason ]

\* Faulty variant: an operation without expectation is probed all the same.
RECURSIVE ScenarioResultsOfEveryOperation(_, _, _, _, _)
ScenarioResultsOfEveryOperation(db, schema, t, scenario, operations) ==
  IF operations = <<>> THEN <<>>
  ELSE <<TestResultDetail(db, schema, t, scenario, Head(operations))>>
         \o ScenarioResultsOfEveryOperation(db, schema, t, scenario,
                                            Tail(operations))

\* for (const operation of operations) { if (!expected) continue; ... }
RECURSIVE executeTestScenarioForAllOperations(_, _, _, _, _)
executeTestScenarioForAllOperations(db, schema, t, scenario, operations) ==
  IF operations = <<>> THEN <<>>
  ELSE LET op == Head(operations)
           rest == executeTestScenarioForAllOperations(db, schema, t, scenario,
                                                       Tail(operations))
       IN IF ~Truthy(scenario.expected[op]) THEN rest
          ELSE <<TestResultDetail(db, schema, t, scenario, op)>> \o rest

NoTestResults ==
  [ total_tests |-> 0, passed_tests |-> 0, failed_tests |-> 0,
    error_tests |-> 0, skipped_tests |-> 0, detailed_results |-> <<>> ]

\* Faulty variant: a result in error is counted as failed as well.
updateCountingErrorsTwice(results, r) ==
  LET counted == [results EXCEPT !.total_tests = @ + 1] IN
  IF r.passed THEN [counted EXCEPT !.passed_tests = @ + 1]
  ELSE IF r.actual = "ERROR"
  THEN [counted EXCEPT !.error_tests = @ + 1, !.failed_tests = @ + 1]
  ELSE [counted EXCEPT !.failed_tests = @ + 1]

\* updateTestCounters(results, result)
updateTestCounters(results, r) ==
  LET counted == [results EXCEPT !.total_tests = @ + 1] IN
  IF r.passed THEN [counted EXCEPT !.passed_tests = @ + 1]
  ELSE IF r.actual = "ERROR" THEN [counted EXCEPT !.error_tests = @ + 1]
  ELSE [counted EXCEPT !.failed_tests = @ + 1]

\* results.detailed_results.push(...rs); for (r of rs) updateTestCounters(..)
RECURSIVE CountAll(_, _)
CountAll(results, rs) ==
  IF rs = <<>> THEN results
  ELSE CountAll(updateTestCounters(results, Head(rs)), Tail(rs))

PushAndCount(results, rs) ==
  CountAll([results EXCEPT !.detailed_results = @ \o rs], rs)

\* The filter of Object.entries(config.tables).
Selected(entry, ec) ==
  /\ ~(Truthy(ec.target_table) /\ entry.tableKey # ec.target_table)
  /\ ~(~ec.include_system_schemas /\ ~startsWithPublic(entry.tableKey))

tableEntriesOf(cfg, ec) == SelectSeq(cfg, LAMBDA entry : Selected(entry, ec))

(***************************************************************************)
(* executePromisesInParallel (shared/parallel.ts).  Array(concurrency)     *)
(* .fill(null).map(execute) starts the workers one after the other, each   *)
(* running to its first await: worker w takes factory w while there is     *)
(* one.  After that a worker moves only when what it awaits settles.       *)
(***************************************************************************)
Exited == [state |-> "exited", promiseIndex |-> 0, scenario |-> 0, allResults |-> <<>>]

\* A worker that has just called promiseFactories[promiseIndex]().
Called(entries, promiseIndex) ==
  [ state |-> IF entries[promiseIndex].test_scenarios = <<>>
              THEN "returning" ELSE "running",
    promiseIndex |-> promiseIndex,
    scenario |-> 1,
    allResults |-> <<>> ]

\* results[promiseIndex] = result
Store(array, promiseIndex, r) ==
  [i \in DOMAIN array \cup {promiseIndex} |->
     IF i = promiseIndex THEN r ELSE array[i]]

\* Faulty variant: the table results keep the order of the results array.
KeepOrder(a, b) == 0

\* (a, b) => a.tableKey.localeCompare(b.tableKey)
ByTableKey(a, b) == localeCompare(a.tableKey, b.tableKey)

\* tableResults.sort(ByTableKey).  Array.prototype.sort is stable: insertion
\* keeps items that compare equal in their order.
RECURSIVE SortedInsert(_, _)
SortedInsert(x, sorted) ==
  IF sorted = <<>> THEN <<x>>
  ELSE IF ByTableKey(x, Head(sorted)) < 0 THEN <<x>> \o sorted
  ELSE <<Head(sorted)>> \o SortedInsert(x, Tail(sorted))

RECURSIVE Sort(_)
Sort(arr) ==
  IF arr = <<>> THEN <<>>
  ELSE SortedInsert(arr[Len(arr)], Sort(SubSeq(arr, 1, Len(arr) - 1)))

\* for (const tableResult of tableResults) { push(...allResults); count }
RECURSIVE Collect(_, _)
Collect(results, sorted) ==
  IF sorted = <<>> THEN results
  ELSE Collect(PushAndCount(results, Head(sorted).allResults), Tail(sorted))

(***************************************************************************)
(* The test command's action and executeAllPolicyTestsForConfiguration.    *)
(***************************************************************************)
EngineAtRest == UNCHANGED << vars, diffVars, toolVars >>
runInputs == << config, options, probeOutcome >>
executorVars == << currentIndex, tableResults, workers, completed >>

TestInit ==
  /\ EngineInit /\ DiffIdle /\ ToolsIdle
  /\ config \in Configs
  /\ options \in RunOptions
  /\ probeOutcome \in Databases
  /\ runPc = "action"
  /\ executionConfig = None
  /\ currentIndex = 0
  /\ tableResults = <<>>
  /\ workers = <<>>
  /\ completed = <<>>
  /\ cursor = None
  /\ testResults = None
  /\ exitCode = None

tableEntries == tableEntriesOf(config, executionConfig)

\* executionConfig.parallel_execution && executionConfig.parallelism &&
\* executionConfig.parallelism > 1
ParallelBranch(ec) ==
  ec.parallel_execution /\ ec.parallelism # 0 /\ ec.parallelism > 1

\* The first scenario at or after table entry i, or the end of the entries.
RECURSIVE ScenarioFrom(_, _)
ScenarioFrom(entries, i) ==
  IF i > Len(entries) THEN [table |-> i, scenario |-> 1]
  ELSE IF entries[i].test_scenarios # <<>> THEN [table |-> i, scenario |-> 1]
  ELSE ScenarioFrom(entries, i + 1)

\* .action(async (options) => { ... executeAllPolicyTestsForConfiguration(
testCommandAction ==
  /\ runPc = "action"
  /\ EngineAtRest
  /\ LET parallelism ==
           TestParallelism(OptionOrDefault(options.parallel, TestParallelDefault))
         ec == [ target_table |-> options.table,
                 include_system_schemas |-> options.allSchemas,
                 parallel_execution |-> parallelism > 1,
                 parallelism |-> parallelism ]
     IN /\ executionConfig' = ec
        /\ cursor' = ScenarioFrom(tableEntriesOf(config, ec), 1)
  /\ testResults' = NoTestResults
  /\ runPc' = "tests"
  /\ UNCHANGED << runInputs, executorVars, exitCode >>

\* executeTablesInParallel: the workers start, each on its own table entry.
executeTablesInParallel ==
  /\ runPc = "tests"
  /\ EngineAtRest
  /\ ParallelBranch(executionConfig)
  /\ LET n == Len(tableEntries)
         parallelism == executionConfig.parallelism
     IN /\ workers' = [w \in 1..parallelism |->
                         IF w <= n THEN Called(tableEntries, w) ELSE Exited]
        /\ currentIndex' = MathMin(parallelism, n)
  /\ runPc' = "workers"
  /\ UNCHANGED << runInputs, executionConfig, tableResults, completed, cursor,
                  testResults, exitCode >>

\* await executeTestScenarioForAllOperations(...) settles in a factory.
ScenarioCompletes(w) ==
  /\ runPc = "workers"
  /\ EngineAtRest
  /\ workers[w].state = "running"
  /\ LET me == workers[w]
         entry == tableEntries[me.promiseIndex]
         scenario == entry.test_scenarios[me.scenario]
         scenarioResults ==
           executeTestScenarioForAllOperations(
             probeOutcome, split(entry.tableKey)[1], split(entry.tableKey)[2],
             scenario, SUPPORTED_DATABASE_OPERATIONS)
     IN workers' =
          [workers EXCEPT ![w] =
             [ state |-> IF me.scenario < Len(entry.test_scenarios)
                         THEN "running" ELSE "returning",
               promiseIndex |-> me.promiseIndex,
               scenario |-> me.scenario + 1,
               allResults |-> me.allResults \o scenarioResults ]]
  /\ UNCHANGED << runInputs, runPc, executionConfig, currentIndex, tableResults,
                  completed, cursor, testResults, exitCode >>

\* A factory has returned: results[promiseIndex] = result, and the worker's
\* loop takes the next factory or ends.
TaskCompletes(w) ==
  /\ runPc = "workers"
  /\ EngineAtRest
  /\ workers[w].state = "returning"
  /\ LET me == workers[w]
         r == [ tableKey |-> tableEntries[me.promiseIndex].tableKey,
                allResults |-> me.allResults ]
     IN /\ tableResults' = Store(tableResults, me.promiseIndex, r)
        /\ completed' = Append(completed, me.promiseIndex)
  /\ IF currentIndex < Len(tableEntries)
     THEN /\ workers' = [workers EXCEPT ![w] = Called(tableEntries, currentIndex + 1)]
          /\ currentIndex' = currentIndex + 1
     ELSE /\ workers' = [workers EXCEPT ![w] = Exited]
          /\ UNCHANGED currentIndex
  /\ UNCHANGED << runInputs, runPc, executionConfig, cursor, testResults, exitCode >>

\* Promise.all(parallelExecutions) settles; the table results are sorted and
\* their results pushed and counted.
CollectTableResults ==
  /\ runPc = "workers"
  /\ EngineAtRest
  /\ \A w \in DOMAIN workers : workers[w].state = "exited"
  /\ testResults' = Collect(testResults, Sort(tableResults))
  /\ runPc' = "collected"
  /\ UNCHANGED << runInputs, executionConfig, executorVars, cursor, exitCode >>

\* Sequential execution: one scenario of one table entry.
SequentialScenario ==
  /\ runPc = "tests"
  /\ EngineAtRest
  /\ ~ParallelBranch(executionConfig)
  /\ cursor.table <= Len(tableEntries)
  /\ LET entry == tableEntries[cursor.table]
         scenario == entry.test_scenarios[cursor.scenario]
         scenarioResults ==
           executeTestScenarioForAllOperations(
             probeOutcome, split(entry.tableKey)[1], split(entry.tableKey)[2],
             scenario, SUPPORTED_DATABASE_OPERATIONS)
     IN /\ testResults' = PushAndCount(testResults, scenarioResults)
        /\ cursor' = IF cursor.scenario < Len(entry.test_scenarios)
                     THEN [cursor EXCEPT !.scenario = @ + 1]
                     ELSE ScenarioFrom(tableEntries, cursor.table + 1)
  /\ UNCHANGED << runInputs, runPc, executionConfig, executorVars, exitCode >>

\* Sequential execution: the loop over the table entries ends.
SequentialEnd ==
  /\ runPc = "tests"
  /\ EngineAtRest
  /\ ~ParallelBranch(executionConfig)
  /\ cursor.table > Len(tableEntries)
  /\ runPc' = "collected"
  /\ UNCHANGED << runInputs, executionConfig, executorVars, cursor, testResults,
                  exitCode >>

\* const hasFailures = ...; process.exit(hasFailures ? 1 : 0)
ExitTestRun ==
  /\ runPc = "collected"
  /\ EngineAtRest
  /\ LET hasFailures ==
           testResults.failed_tests > 0 \/ testResults.error_tests > 0
     IN exitCode' = IF hasFailures THEN 1 ELSE 0
  /\ runPc' = "exited"
  /\ UNCHANGED << runInputs, executionConfig, executorVars, cursor, testResults >>

TestNext ==
  \/ testCommandAction
  \/ executeTablesInParallel
  \/ \E w \in DOMAIN workers : ScenarioCompletes(w)
  \/ \E w \in DOMAIN workers : TaskCompletes(w)
  \/ CollectTableResults
  \/ SequentialScenario
  \/ SequentialEnd
  \/ ExitTestRun

TestSpec == TestInit /\ [][TestNext]_allVars

(***************************************************************************)
(* Properties of the test run.                                             *)
(***************************************************************************)
Finished == runPc \in {"collected", "exited"}
Detailed == testResults.detailed_results
Count(rs, P(_)) == Cardinality({ i \in 1..Len(rs) : P(rs[i]) })

IsSkipped(r) == r.actual = "SKIPPED"
IsPassed(r) == r.actual = r.expected
IsErrored(r) == r.actual = "ERROR" /\ r.actual # r.expected
IsFailed(r) == ~IsSkipped(r) /\ ~IsPassed(r) /\ ~IsErrored(r)

\* C11 (passed and the skipped counter): in every TestResult of a finished
\* run passed is true exactly when actual equals expected; a result whose
\* actual outcome is SKIPPED has passed = false and is counted in
\* skipped_tests, and in none of passed_tests, failed_tests and error_tests.
PassedAndSkippedCounted ==
  Finished =>
    /\ \A i \in 1..Len(Detailed) :
         /\ Detailed[i].passed <=> IsPassed(Detailed[i])
         /\ IsSkipped(Detailed[i]) => ~Detailed[i].passed
    /\ testResults.skipped_tests = Count(Detailed, IsSkipped)
    /\ testResults.passed_tests = Count(Detailed, IsPassed)
    /\ testResults.failed_tests = Count(Detailed, IsFailed)
    /\ testResults.error_tests = Count(Detailed, IsErrored)

\* The triples of the policy file a run has to probe: the table entry passes
\* the target_table and public-schema filters of the command line, and the
\* scenario states an expectation for the operation.
ScenarioNames == {"anonymous", "authenticated"}

TriplesToProbe ==
  { t \in TableKeys \X ScenarioNames \X Operations :
      \E i \in 1..Len(config) :
        /\ config[i].tableKey = t[1]
        /\ options.table \in {Undefined, t[1]}
        /\ options.allSchemas \/ split(t[1])[1] = "public"
        /\ \E j \in 1..Len(config[i].test_scenarios) :
             /\ config[i].test_scenarios[j].name = t[2]
             /\ config[i].test_scenarios[j].expected[t[3]] # Undefined }

Triple(r) == <<r.table_key, r.scenario_name, r.operation>>

\* C12 (one result per triple): the detailed results of a finished run hold
\* exactly one TestResult for each triple the run has to probe and no other
\* result, whatever the parallelism and the order the workers complete in.
OneResultPerTriple ==
  Finished =>
    /\ { Triple(Detailed[i]) : i \in 1..Len(Detailed) } = TriplesToProbe
    /\ \A i, j \in 1..Len(Detailed) :
         i # j => Triple(Detailed[i]) # Triple(Detailed[j])

\* C12 witness: a parallel run has finished in which the second factory
\* completed before the first, a table entry was filtered out and an
\* operation without expectation was passed over.
OneResultPerTripleWitness ==
  /\ runPc = "exited"
  /\ ParallelBranch(executionConfig)
  /\ Len(completed) > 1 /\ completed[1] > completed[2]
  /\ Len(tableEntries) < Len(config)
  /\ Len(Detailed) > 1

Before(a, b, order) == Rank(order, a) < Rank(order, b)

\* r comes before q in the order (tableKey, scenario_name, op), or is at
\* the same place.
InOrder(r, q) ==
  \/ Before(r.table_key, q.table_key, Collation)
  \/ /\ r.table_key = q.table_key
     /\ \/ Before(r.scenario_name, q.scenario_name, Collation)
        \/ /\ r.scenario_name = q.scenario_name
           /\ Rank(SUPPORTED_DATABASE_OPERATIONS, r.operation)
                <= Rank(SUPPORTED_DATABASE_OPERATIONS, q.operation)

\* C14 (results ordering): the detailed results of a finished run are
\* ordered by (tableKey, scenario_name, op), in sequential and in parallel
\* mode.
ResultsOrdered ==
  Finished =>
    \A i, j \in 1..Len(Detailed) : i < j => InOrder(Detailed[i], Detailed[j])

\* The results of the table entries taken in the given order, each with its
\* scenarios in file order.
RECURSIVE ResultsOfScenarios(_, _)
ResultsOfScenarios(tableKey, scenarios) ==
  IF scenarios = <<>> THEN <<>>
  ELSE LET s == Head(scenarios) IN
       [k \in 1..Cardinality({ op \in Operations : s.expected[op] # Undefined }) |->
          LET op == CHOOSE o \in Operations :
                      /\ s.expected[o] # Undefined
                      /\ Cardinality({ p \in Operations :
                           /\ s.expected[p] # Undefined
                           /\ Rank(SUPPORTED_DATABASE_OPERATIONS, p)
                                <= Rank(SUPPORTED_DATABASE_OPERATIONS, o) }) = k
          IN [ table_key |-> tableKey, scenario_name |-> s.name, operation |-> op,
               expected |-> s.expected[op], actual |-> probeOutcome[op],
               passed |-> (probeOutcome[op] = s.expected[op]) ]]
       \o ResultsOfScenarios(tableKey, Tail(scenarios))

RECURSIVE ResultsInOrder(_)
ResultsInOrder(entries) ==
  IF entries = <<>> THEN <<>>
  ELSE ResultsOfScenarios(Head(entries).tableKey, Head(entries).test_scenarios)
         \o ResultsInOrder(Tail(entries))

\* The selected table entries by ascending tableKey.
EntriesByTableKey ==
  LET n == Len(tableEntries) IN
  CHOOSE q \in [1..n -> { tableEntries[i] : i \in 1..n }] :
    \A i, j \in 1..n :
      i < j => Before(q[i].tableKey, q[j].tableKey, Collation)

\* (tableKey, scenario, op, expected, actual, passed) of a TestResult.
Presented(r) ==
  [ table_key |-> r.table_key, scenario_name |-> r.scenario_name,
    operation |-> r.operation, expected |-> r.expected, actual |-> r.actual,
    passed |-> r.passed ]

\* C15 (deterministic presentation): the records a finished run presents are
\* fixed by the policy file, the database and the parallelism alone: the
\* table entries in file order when the run is sequential and by tableKey
\* when it is parallel, whatever order the per-table tasks completed in.
DeterministicPresentation ==
  Finished =>
    [i \in 1..Len(Detailed) |-> Presented(Detailed[i])] =
      IF ParallelBranch(executionConfig)
      THEN ResultsInOrder(EntriesByTableKey)
      ELSE ResultsInOrder(tableEntries)

\* C15 witness: a parallel run over a policy file whose table entries are not
\* in tableKey order has finished, its tasks completing in the reverse order
\* of their start, with results to present for both.
DeterministicPresentationWitness ==
  /\ runPc = "exited"
  /\ ParallelBranch(executionConfig)
  /\ Len(completed) = 2 /\ completed = <<2, 1>>
  /\ \A i \in 1..2 : tableResults[i].allResults # <<>>
  /\ Before(tableEntries[2].tableKey, tableEntries[1].tableKey, Collation)

\* C16 (exit code of a test run): the run exits 0 exactly when none of its
\* results is failed or errored, and 1 otherwise; skipped results alone do
\* not make it exit 1.
ExitSignal ==
  runPc = "exited" =>
    /\ exitCode \in {0, 1}
    /\ exitCode = 0 <=>
         \A i \in 1..Len(Detailed) :
           ~IsFailed(Detailed[i]) /\ ~IsErrored(Detailed[i])

(***************************************************************************)
(* SNAPSHOTS AND THEIR COMPARISON (shared/diff.ts, the snapshot and diff   *)
(* commands)                                                               *)
(*                                                                         *)
(* A PolicySnapshot maps tableKey to scenario name to operation to the     *)
(* probe's result; each level holds the keys the file or the run gave it.  *)
(***************************************************************************)
SnapshotTables == <<"public.posts", "public.users">>
SnapshotScenarios == <<"anonymous">>
SnapshotOperations == <<"SELECT">>
SnapshotResults == {"ALLOW", "DENY", "ERROR"}

Range(seq) == { seq[i] : i \in 1..Len(seq) }

Maps(keys, values) == UNION { [ks -> values] : ks \in SUBSET keys }

Snapshots ==
  Maps(Range(SnapshotTables),
       Maps(Range(SnapshotScenarios),
            Maps(Range(SnapshotOperations), SnapshotResults)))

\* previous[tableKey]?.[scenarioName]?.[op]
Lookup(snapshot, tableKey, scenarioName, op) ==
  IF tableKey \notin DOMAIN snapshot THEN Undefined
  ELSE IF scenarioName \notin DOMAIN snapshot[tableKey] THEN Undefined
  ELSE IF op \notin DOMAIN snapshot[tableKey][scenarioName] THEN Undefined
  ELSE snapshot[tableKey][scenarioName][op]

\* Faulty variant: the loops visit every cell, held by the snapshot or not.
EveryCell(snapshot) ==
  [n \in 1..(Len(SnapshotTables) * Len(SnapshotScenarios) * Len(SnapshotOperations)) |->
     LET o == ((n - 1) % Len(SnapshotOperations)) + 1
         s == (((n - 1) \div Len(SnapshotOperations)) % Len(SnapshotScenarios)) + 1
         t == ((n - 1) \div (Len(SnapshotOperations) * Len(SnapshotScenarios))) + 1
     IN <<SnapshotTables[t], SnapshotScenarios[s], SnapshotOperations[o]>>]

\* The (tableKey, scenarioName, operation) the three for-in loops visit.
CellsOf(snapshot) ==
  SelectSeq(
    [n \in 1..(Len(SnapshotTables) * Len(SnapshotScenarios) * Len(SnapshotOperations)) |->
       LET o == ((n - 1) % Len(SnapshotOperations)) + 1
           s == (((n - 1) \div Len(SnapshotOperations)) % Len(SnapshotScenarios)) + 1
           t == ((n - 1) \div (Len(SnapshotOperations) * Len(SnapshotScenarios))) + 1
       IN <<SnapshotTables[t], SnapshotScenarios[s], SnapshotOperations[o]>>],
    LAMBDA c : Lookup(snapshot, c[1], c[2], c[3]) # Undefined)

\* const message = `  - ${tableKey} -> ${scenarioName} -> ${operation}`
Message(cell) == <<"  - ", cell[1], " -> ", cell[2], " -> ", cell[3]>>

NoDifference ==
  [ isIdentical |-> TRUE, leaks |-> <<>>, regressions |-> <<>>,
    newlyIntroduced |-> <<>> ]

\* Faulty variant: any change that ends in ALLOW is a leak.
IsLeakWhenAllowed(previousResult, currentResult) == currentResult = "ALLOW"

\* Faulty variant: any change that starts from DENY is a leak.
IsLeakFromDeny(previousResult, currentResult) == previousResult = "DENY"

\* currentResult === 'ALLOW' && previousResult === 'DENY'
IsLeak(previousResult, currentResult) ==
  currentResult = "ALLOW" /\ previousResult = "DENY"

\* Faulty variant: a new cell leaves isIdentical as it is.
PushNewKeepingIdentical(result_, text) ==
  [result_ EXCEPT !.newlyIntroduced = Append(@, text)]

\* result.newlyIntroduced.push(...); result.isIdentical = false
PushNew(result_, text) ==
  [result_ EXCEPT !.newlyIntroduced = Append(@, text), !.isIdentical = FALSE]

\* result.leaks.push(...) or result.regressions.push(...), and then
\* result.isIdentical = false
PushChange(result_, message, previousResult, currentResult) ==
  IF IsLeak(previousResult, currentResult)
  THEN [result_ EXCEPT
          !.leaks = Append(@, message \o <<" (changed from DENY to ALLOW)">>),
          !.isIdentical = FALSE]
  ELSE [result_ EXCEPT
          !.regressions =
            Append(@, message \o <<" (changed from ", previousResult, " to ",
                                   currentResult, ")">>),
          !.isIdentical = FALSE]

\* The body of the innermost loop of compareSnapshots.
CompareCell(result_, previous, current, cell) ==
  LET currentResult == Lookup(current, cell[1], cell[2], cell[3])
      previousResult == Lookup(previous, cell[1], cell[2], cell[3])
      message == Message(cell)
  IN IF previousResult = Undefined
     THEN PushNew(result_, message \o <<" (is now ", currentResult, ")">>)
     ELSE IF currentResult # previousResult
     THEN PushChange(result_, message, previousResult, currentResult)
     ELSE result_

RECURSIVE CompareCells(_, _, _, _)
CompareCells(result_, previous, current, cells) ==
  IF cells = <<>> THEN result_
  ELSE CompareCells(CompareCell(result_, previous, current, Head(cells)),
                    previous, current, Tail(cells))

compareSnapshots(previous, current) ==
  CompareCells(NoDifference, previous, current, CellsOf(current))

(***************************************************************************)
(* The snapshot command (snapshotCommand) and the diff command             *)
(* (diffCommand with --parallel).                                          *)
(***************************************************************************)
DiffAtRest == UNCHANGED << vars, runVars, toolVars >>
diffInputs == << command, parallelOption, previousSnapshot, liveSnapshot >>

\* The snapshot file: <<>> when there is none, <<snapshot>> otherwise.
NoFile == <<>>

\* comparison: <<>> before compareSnapshots has returned, <<result>> after.
NotCompared == <<>>

DiffInit ==
  /\ EngineInit /\ RunIdle /\ ToolsIdle
  /\ command \in {"snapshot", "diff"}
  /\ parallelOption \in ParallelTexts \cup {NoOption}
  /\ previousSnapshot \in
       IF command = "diff" THEN {NoFile} \cup { <<p>> : p \in Snapshots }
       ELSE {NoFile}
  /\ liveSnapshot \in Snapshots
  /\ diffPc = "start"
  /\ concurrency = None
  /\ currentSnapshot = None
  /\ comparison = NotCompared
  /\ diffExit = None

\* .option('--parallel <count>', ..., (value) => parseInt(value, 10), 10)
SnapshotParallel(option) ==
  IF option = NoOption THEN Number(10) ELSE parseInt(option)

\* Array(concurrency) throws a RangeError unless concurrency is a length.
IsArrayLength(c) == ~c.nan /\ c.n >= 0

\* snapshot[tableKey] = {}; snapshot[tableKey][scenario.name] = {}
EmptyCells(snapshot) ==
  [k \in DOMAIN snapshot |-> [s \in DOMAIN snapshot[k] |-> <<>>]]

\* if (!previousSnapshot) { logger.error(...); process.exit(1) }
NoSnapshotFound ==
  /\ diffPc = "start"
  /\ DiffAtRest
  /\ command = "diff"
  /\ previousSnapshot = NoFile
  /\ diffExit' = 1
  /\ diffPc' = "exited"
  /\ UNCHANGED << diffInputs, concurrency, currentSnapshot, comparison >>

\* createPolicySnapshot(pool, config, options.parallel, logger): the tasks
\* are handed to executePromisesInParallel with options.parallel as it is.
\* Without a worker no task runs and the cells stay empty; a concurrency
\* that is no array length makes the executor throw, and the command's catch
\* block exits with 1.
createPolicySnapshot ==
  /\ diffPc = "start"
  /\ DiffAtRest
  /\ command = "diff" => previousSnapshot # NoFile
  /\ concurrency' = SnapshotParallel(parallelOption)
  /\ IF ~IsArrayLength(concurrency')
     THEN /\ diffExit' = 1
          /\ diffPc' = "exited"
          /\ UNCHANGED currentSnapshot
     ELSE /\ currentSnapshot' =
               IF concurrency'.n = 0 THEN EmptyCells(liveSnapshot)
               ELSE liveSnapshot
          /\ diffPc' = "created"
          /\ UNCHANGED diffExit
  /\ UNCHANGED << diffInputs, comparison >>

\* snapshot: writePolicySnapshotToFile(snapshot), and the action returns.
writePolicySnapshotToFile ==
  /\ diffPc = "created"
  /\ DiffAtRest
  /\ command = "snapshot"
  /\ diffExit' = 0
  /\ diffPc' = "exited"
  /\ UNCHANGED << diffInputs, concurrency, currentSnapshot, comparison >>

\* diff: const comparison = compareSnapshots(previousSnapshot, currentSnapshot)
CompareWithPrevious ==
  /\ diffPc = "created"
  /\ DiffAtRest
  /\ command = "diff"
  /\ comparison' = <<compareSnapshots(previousSnapshot[1], currentSnapshot)>>
  /\ diffPc' = "compared"
  /\ UNCHANGED << diffInputs, concurrency, currentSnapshot, diffExit >>

\* printComparisonResult(comparison, logger) prints the three lists and
\* returns; the action ends without a call of process.exit.
printComparisonResult ==
  /\ diffPc = "compared"
  /\ DiffAtRest
  /\ diffExit' = 0
  /\ diffPc' = "exited"
  /\ UNCHANGED << diffInputs, concurrency, currentSnapshot, comparison >>

DiffNext ==
  \/ NoSnapshotFound
  \/ createPolicySnapshot
  \/ writePolicySnapshotToFile
  \/ CompareWithPrevious
  \/ printComparisonResult

DiffSpec == DiffInit /\ [][DiffNext]_allVars

(***************************************************************************)
(* Properties of the snapshot and diff runs.                               *)
(***************************************************************************)
\* C13 (parallelism in range): the concurrency handed to
\* executePromisesInParallel is an integer from 1 to 10, whatever the text of
\* --parallel; stated here for the snapshot and the diff command (the test
\* command clamps: TestParallelism).
ParallelismInRange ==
  (diffPc # "start" /\ (command = "diff" => previousSnapshot # NoFile)) =>
    ~concurrency.nan /\ concurrency.n \in 1..10

Compared == comparison # NotCompared
Difference == comparison[1]

\* C17 (exit code of a diff run): a diff run whose comparison holds a leak
\* exits with 1; one with regressions or new entries only does not.
LeakSignalsExit ==
  diffPc = "exited" /\ Compared =>
    (diffExit = 1 <=> Difference.leaks # <<>>)

\* The cell an entry of a comparison list names, and the entries of a list
\* that name a cell.
CellNamed(entry) == <<entry[2], entry[4], entry[6]>>
Naming(list, cell) == { i \in 1..Len(list) : CellNamed(list[i]) = cell }

LeakText(cell) ==
  <<cell[1], " -> ", cell[2], " -> ", cell[3], " (changed from DENY to ALLOW)">>

InNoList(d, cell) ==
  /\ Naming(d.leaks, cell) = {}
  /\ Naming(d.regressions, cell) = {}
  /\ Naming(d.newlyIntroduced, cell) = {}

OnlyIn(list, others, cell) ==
  /\ Cardinality(Naming(list, cell)) = 1
  /\ \A k \in 1..Len(others) : Naming(others[k], cell) = {}

AllCells ==
  Range(SnapshotTables) \X Range(SnapshotScenarios) \X Range(SnapshotOperations)

\* C18 (classification): compareSnapshots puts every cell of current into
\* exactly one class: newly-introduced when previous has no outcome for it,
\* leak when previous is DENY and current is ALLOW, regression for any other
\* change, and none when the outcome is unchanged; the leak entry names the
\* cell, after the list marker, as
\* "<tableKey> -> <scenario> -> <op> (changed from DENY to ALLOW)".  A cell
\* current does not hold is in no list.
SnapshotClassification ==
  Compared =>
    \A cell \in AllCells :
      LET d == Difference
          was == Lookup(previousSnapshot[1], cell[1], cell[2], cell[3])
          is == Lookup(currentSnapshot, cell[1], cell[2], cell[3])
      IN CASE is = Undefined -> InNoList(d, cell)
           [] is # Undefined /\ was = Undefined ->
                OnlyIn(d.newlyIntroduced, <<d.leaks, d.regressions>>, cell)
           [] is = "ALLOW" /\ was = "DENY" ->
                /\ OnlyIn(d.leaks, <<d.regressions, d.newlyIntroduced>>, cell)
                /\ \A i \in Naming(d.leaks, cell) :
                     Tail(d.leaks[i]) = LeakText(cell)
           [] is # Undefined /\ was # Undefined /\ is = was -> InNoList(d, cell)
           [] OTHER ->
                OnlyIn(d.regressions, <<d.leaks, d.newlyIntroduced>>, cell)

\* C18 witness: a comparison that found a leak in one cell and a change of
\* another class in the other.
SnapshotClassificationWitness ==
  /\ Compared
  /\ Len(Difference.leaks) = 1
  /\ Len(Difference.regressions) + Len(Difference.newlyIntroduced) = 1

\* C19 (isIdentical): compareSnapshots returns isIdentical = true exactly
\* when leaks, regressions and newlyIntroduced are all empty.
IdenticalIffNothingListed ==
  Compared =>
    (Difference.isIdentical <=>
       /\ Difference.leaks = <<>>
       /\ Difference.regressions = <<>>
       /\ Difference.newlyIntroduced = <<>>)

\* C19 witness: a comparison whose only entries are newly introduced cells,
\* returned as not identical.
IdenticalWitness ==
  /\ Compared
  /\ ~Difference.isIdentical
  /\ Difference.leaks = <<>> /\ Difference.regressions = <<>>
  /\ Difference.newlyIntroduced # <<>>

CellsNamed(list) == { CellNamed(list[i]) : i \in 1..Len(list) }

\* The regressions of a comparison that changed from ALLOW to DENY.
AllowToDeny(d) ==
  SelectSeq(d.regressions, LAMBDA e : e[8] = "ALLOW" /\ e[10] = "DENY")

\* C20 (diff antisymmetry): the cells compareSnapshots(A, B) reports as leaks
\* are the cells compareSnapshots(B, A) reports as regressions from ALLOW to
\* DENY.
DiffAntisymmetry ==
  Compared =>
    CellsNamed(Difference.leaks) =
      CellsNamed(AllowToDeny(compareSnapshots(currentSnapshot,
                                              previousSnapshot[1])))

\* C20 witness: a comparison with a leak, whose reverse comparison has other
\* regressions or new cells besides.
DiffAntisymmetryWitness ==
  /\ Compared
  /\ Difference.leaks # <<>>
  /\ LET back == compareSnapshots(currentSnapshot, previousSnapshot[1])
     IN Len(back.regressions) + Len(back.newlyIntroduced) > 1

(***************************************************************************)
(* The snapshot file: writePolicySnapshotToFile writes                     *)
(* JSON.stringify(snapshot, null, 2) and loadPolicySnapshotFromFile        *)
(* returns JSON.parse of the file's text.  The text is a sequence of       *)
(* tokens: punctuation, white space, and a string literal as an opening    *)
(* quote, its characters and a closing quote.                              *)
(***************************************************************************)
FileTables == <<"public.posts", "public.users">>
FileScenarios == <<"anonymous">>
FileOperations == <<"SELECT", "INSERT">>

\* PolicySnapshot: tableKey -> scenario name -> operation -> ProbeResult
PolicySnapshots ==
  Maps(Range(FileTables),
       Maps(Range(FileScenarios),
            Maps(Range(FileOperations), SnapshotResults)))

\* The keys of a PolicySnapshot at each depth, in property order.
PropertyOrder == << FileTables, FileScenarios, FileOperations >>

Quote == "\""
LineFeed == "\n"
Gap == "  "
Whitespace == { LineFeed, Gap, " " }

\* Faulty variant: only the first own property is written.
FirstKeyOnly(value, order) ==
  LET keys == SelectSeq(order, LAMBDA k : k \in DOMAIN value)
  IN IF keys = <<>> THEN <<>> ELSE <<Head(keys)>>

\* The own enumerable properties of an object, in property order.
EnumerableOwnProperties(value, order) ==
  SelectSeq(order, LAMBDA k : k \in DOMAIN value)

\* The indentation of a line at the given depth (gap of two spaces).
Indent(depth) == [i \in 1..depth |-> Gap]

\* JSON.stringify(value, null, 2) of a PolicySnapshot (depth 0), of one of
\* its nested objects (depth 1, 2) or of a ProbeResult (depth 3).
RECURSIVE SerializeJSONProperty(_, _)
RECURSIVE SerializeJSONObject(_, _, _)
SerializeJSONProperty(value, depth) ==
  IF depth = Len(PropertyOrder) THEN <<Quote, value, Quote>>
  ELSE LET keys == EnumerableOwnProperties(value, PropertyOrder[depth + 1])
       IN IF keys = <<>> THEN <<"{", "}">>
          ELSE <<"{">> \o SerializeJSONObject(value, keys, depth + 1)
                 \o <<LineFeed>> \o Indent(depth) \o <<"}">>

\* The members of an object, one per line, separated by commas.
SerializeJSONObject(value, keys, depth) ==
  <<LineFeed>> \o Indent(depth) \o <<Quote, Head(keys), Quote, ":", " ">>
    \o SerializeJSONProperty(value[Head(keys)], depth)
    \o (IF Tail(keys) = <<>> THEN <<>>
        ELSE <<",">> \o SerializeJSONObject(value, Tail(keys), depth))

StringifySnapshot(value) == SerializeJSONProperty(value, 0)

RECURSIVE SkipWhitespace(_)
SkipWhitespace(text) ==
  IF text # <<>> /\ Head(text) \in Whitespace THEN SkipWhitespace(Tail(text))
  ELSE text

\* JSON.parse: a value is a string literal or an object; the parse of a
\* value yields the value and the text that follows it.
RECURSIVE ParseValue(_)
RECURSIVE ParseMembers(_, _)
ParseValue(text) ==
  LET t == SkipWhitespace(text)
  IN IF Head(t) = Quote
     THEN [value |-> t[2], rest |-> SubSeq(t, 4, Len(t))]
     ELSE LET inner == SkipWhitespace(Tail(t))
          IN IF Head(inner) = "}"
             THEN [value |-> <<>>, rest |-> Tail(inner)]
             ELSE ParseMembers(<<>>, inner)

\* The members of an object from the opening quote of a key on; a later
\* member of the same key replaces the earlier one.
ParseMembers(object, text) ==
  LET key == text[2]
      afterColon == Tail(SkipWhitespace(SubSeq(text, 4, Len(text))))
      member == ParseValue(afterColon)
      next == SkipWhitespace(member.rest)
      grown == (key :> member.value) @@ object
  IN IF Head(next) = ","
     THEN ParseMembers(grown, SkipWhitespace(Tail(next)))
     ELSE [value |-> grown, rest |-> Tail(next)]

JSONparse(text) == ParseValue(text).value

\* loaded: <<>> for undefined (no file), <<snapshot>> otherwise.
NothingLoaded == <<>>

\* A snapshot file left by an earlier run.
EarlierSnapshot ==
  [k \in {"public.posts"} |->
     [s \in {"anonymous"} |-> [o \in {"SELECT"} |-> "DENY"]]]

FileAtRest ==
  UNCHANGED << vars, runVars, diffVars, connVars, lintVars, coverageVars,
               poolVars >>

FileInit ==
  /\ EngineInit /\ RunIdle /\ DiffIdle
  /\ ConnIdle /\ LintIdle /\ CoverageIdle /\ PoolIdle
  /\ policySnapshot \in PolicySnapshots
  /\ snapshotFile \in {NoFile, StringifySnapshot(EarlierSnapshot)}
  /\ loaded = NothingLoaded
  /\ filePc = "start"

\* await writeFile(FILE_PATHS.SNAPSHOT_FILE, JSON.stringify(snapshot, null, 2))
SaveSnapshot ==
  /\ filePc \in {"start", "checked"}
  /\ FileAtRest
  /\ snapshotFile' = StringifySnapshot(policySnapshot)
  /\ filePc' = "written"
  /\ UNCHANGED << policySnapshot, loaded >>

\* if (!existsSync(FILE_PATHS.SNAPSHOT_FILE)) return undefined;
\* return JSON.parse(await readFile(FILE_PATHS.SNAPSHOT_FILE, 'utf-8'))
loadPolicySnapshotFromFile ==
  /\ filePc \in {"start", "written"}
  /\ FileAtRest
  /\ loaded' = IF snapshotFile = NoFile THEN NothingLoaded
               ELSE <<JSONparse(snapshotFile)>>
  /\ filePc' = IF filePc = "start" THEN "checked" ELSE "loaded"
  /\ UNCHANGED << policySnapshot, snapshotFile >>

FileNext == SaveSnapshot \/ loadPolicySnapshotFromFile

FileSpec == FileInit /\ [][FileNext]_allVars

\* C21 (snapshot round trip): the snapshot loaded from the file that
\* writePolicySnapshotToFile wrote equals the snapshot written: same tables,
\* scenarios, operations and outcomes.
SnapshotRoundTrip ==
  filePc = "loaded" => loaded = <<policySnapshot>>

\* A snapshot of two tables, one with both operations and one without a
\* scenario, written and loaded back.
SnapshotRoundTripWitness ==
  /\ filePc = "loaded"
  /\ loaded # NothingLoaded
  /\ DOMAIN policySnapshot = Range(FileTables)
  /\ policySnapshot["public.users"] = <<>>
  /\ "anonymous" \in DOMAIN policySnapshot["public.posts"]
  /\ policySnapshot["public.posts"]["anonymous"] =
       [o \in Range(FileOperations) |->
          IF o = "SELECT" THEN "ALLOW" ELSE "DENY"]

(***************************************************************************)
(* establishValidatedDatabaseConnection (core/db.ts) as the commands call  *)
(* it through withDatabaseConnection (shared/command-utils.ts).            *)
(***************************************************************************)
\* The row of the privilege query for the role of the connection URL.
LoginRoles ==
  [ role : {"tester"}, usesuper : BOOLEAN, has_global_dml : BOOLEAN,
    has_create : BOOLEAN ]

\* createDatabaseConnectionConfig(url, overrides): the option a command may
\* override (the test command passes role_validation_enabled: false).
ConnectionConfigs == [ role_validation_enabled : BOOLEAN ]

\* The await that rejects: the pool's test connection, the connection of the
\* validation, the privilege query, or a privilege query without a row.
DbFaults == {"none", "testConnect", "validationConnect", "query", "noRow"}

\* Faulty variant: only a superuser is rejected.
RejectSuperuserOnly(p) == p.is_superuser

\* privileges.is_superuser || privileges.has_global_dml ||
\* privileges.has_create_privilege
shouldRejectRoleForSafetyReasons(p) ==
  p.is_superuser \/ p.has_global_dml \/ p.has_create_privilege

\* The DatabaseRolePrivileges built from the row of the query.
RolePrivilegesOf(row) ==
  [ role_name |-> row.role,
    has_global_dml |-> row.has_global_dml,
    has_create_privilege |-> row.has_create,
    is_superuser |-> row.usesuper ]

\* privileges: <<>> before the introspection, <<privileges>> after.
NotIntrospected == <<>>

ConnAtRest ==
  UNCHANGED << vars, runVars, diffVars, fileVars, lintVars, coverageVars,
               poolVars >>
connInputs == << loginRole, connectionConfig, dbFault >>

ConnInit ==
  /\ EngineInit /\ RunIdle /\ DiffIdle
  /\ FileIdle /\ LintIdle /\ CoverageIdle /\ PoolIdle
  /\ loginRole \in LoginRoles
  /\ connectionConfig \in ConnectionConfigs
  /\ dbFault \in DbFaults
  /\ connPc = "createPool"
  /\ privileges = NotIntrospected
  /\ clientsOut = 0
  /\ established = None
  /\ probesStarted = FALSE

\* const pool = new Pool({...}); const client = await pool.connect();
\* client.release(); return pool
createDatabaseConnectionPool ==
  /\ connPc = "createPool"
  /\ ConnAtRest
  /\ connPc' = IF dbFault = "testConnect" THEN "catch" ELSE "validate"
  /\ UNCHANGED << connInputs, privileges, clientsOut, established,
                  probesStarted >>

\* validateDatabaseRolePrivileges: const client = await pool.connect()
ConnectForValidation ==
  /\ connPc = "validate"
  /\ ConnAtRest
  /\ IF dbFault = "validationConnect"
     THEN connPc' = "catch" /\ UNCHANGED clientsOut
     ELSE connPc' = "introspect" /\ clientsOut' = clientsOut + 1
  /\ UNCHANGED << connInputs, privileges, established, probesStarted >>

\* const privileges = await introspectCurrentRolePrivileges(client); a
\* rejected query or a missing row (row.role of undefined) throws, and the
\* finally block releases the client.
introspectCurrentRolePrivileges ==
  /\ connPc = "introspect"
  /\ ConnAtRest
  /\ IF dbFault \in {"query", "noRow"}
     THEN /\ connPc' = "catch"
          /\ clientsOut' = clientsOut - 1
          /\ UNCHANGED privileges
     ELSE /\ connPc' = "decide"
          /\ privileges' = <<RolePrivilegesOf(loginRole)>>
          /\ UNCHANGED clientsOut
  /\ UNCHANGED << connInputs, established, probesStarted >>

\* if (shouldRejectRoleForSafetyReasons(privileges)) throw ...; finally
\* client.release(); establishValidatedDatabaseConnection then returns pool.
validateDatabaseRolePrivileges ==
  /\ connPc = "decide"
  /\ ConnAtRest
  /\ clientsOut' = clientsOut - 1
  /\ IF shouldRejectRoleForSafetyReasons(privileges[1])
     THEN connPc' = "catch" /\ UNCHANGED established
     ELSE connPc' = "returned" /\ established' = "pool"
  /\ UNCHANGED << connInputs, privileges, probesStarted >>

\* catch (error) { throw handleDatabaseConnectionError(error) }, and the
\* catch block of withDatabaseConnection: logger.error(...); process.exit(1)
handleDatabaseConnectionError ==
  /\ connPc = "catch"
  /\ ConnAtRest
  /\ established' = "error"
  /\ connPc' = "exited"
  /\ UNCHANGED << connInputs, privileges, clientsOut, probesStarted >>

\* withDatabaseConnection: const result = await handler({ pool, logger, dbUrl })
RunHandler ==
  /\ connPc = "returned"
  /\ ConnAtRest
  /\ probesStarted' = TRUE
  /\ connPc' = "handler"
  /\ UNCHANGED << connInputs, privileges, clientsOut, established >>

ConnNext ==
  \/ createDatabaseConnectionPool
  \/ ConnectForValidation
  \/ introspectCurrentRolePrivileges
  \/ validateDatabaseRolePrivileges
  \/ handleDatabaseConnectionError
  \/ RunHandler

ConnSpec == ConnInit /\ [][ConnNext]_allVars

Unsafe(role) == role.usesuper \/ role.has_global_dml \/ role.has_create

\* C22 (privilege rejection is fatal): establishValidatedDatabaseConnection
\* hands out a pool only for a role that is no superuser and has neither
\* global DML nor the CREATE privilege; for any other role it fails and no
\* probe is started, whatever role_validation_enabled says.
PrivilegeRejectionIsFatal ==
  /\ (established = "pool" \/ probesStarted) => ~Unsafe(loginRole)
  /\ (Unsafe(loginRole) /\ connPc \in {"exited", "returned", "handler"}) =>
       (established = "error" /\ ~probesStarted)

\* A role with the CREATE privilege only was rejected although the command
\* had switched role_validation_enabled off.
PrivilegeRejectionWitness ==
  /\ connPc = "exited"
  /\ established = "error"
  /\ dbFault = "none"
  /\ privileges # NotIntrospected
  /\ ~loginRole.usesuper /\ ~loginRole.has_global_dml /\ loginRole.has_create
  /\ ~connectionConfig.role_validation_enabled

(***************************************************************************)
(* The policy linter (core/lint.ts).  An expression is null or a text, and *)
(* a text is the sequence of its characters.                               *)
(***************************************************************************)
Null == [null |-> TRUE, text |-> <<>>]
Text(chars) == [null |-> FALSE, text |-> chars]

\* 'true', '(true)' and 'auth.uid()'
TrueText == <<"t", "r", "u", "e">>
ParenthesizedTrueText == <<"(">> \o TrueText \o <<")">>
AuthUidText == <<"a", "u", "t", "h", ".", "u", "i", "d", "(", ")">>

\* White space that String.prototype.trim removes.
TrimmedCharacters == {" ", "\t", "\n"}

RECURSIVE trimStart(_)
trimStart(chars) ==
  IF chars # <<>> /\ Head(chars) \in TrimmedCharacters
  THEN trimStart(Tail(chars)) ELSE chars

RECURSIVE trimEnd(_)
trimEnd(chars) ==
  IF chars # <<>> /\ chars[Len(chars)] \in TrimmedCharacters
  THEN trimEnd(SubSeq(chars, 1, Len(chars) - 1)) ELSE chars

\* Faulty variant: the text is compared as it is.
Untrimmed(chars) == chars

\* String.prototype.trim
trim(chars) == trimEnd(trimStart(chars))

\* String.prototype.includes
includes(chars, part) ==
  \E i \in 0..(Len(chars) - Len(part)) :
    SubSeq(chars, i + 1, i + Len(part)) = part

\* `${policy.schema}.${policy.table}.${policy.policy_name}`
PolicyLabel(policy) ==
  <<policy.schema, ".", policy.table, ".", policy.policy_name>>

\* policy.using_expression || undefined: null and '' give undefined
OrUndefined(expression) ==
  IF expression.null \/ expression.text = <<>> THEN Null ELSE expression

LintIssue(severity, check_id, policy, expression) ==
  [ severity |-> severity, check_id |-> check_id,
    policy |-> PolicyLabel(policy), expression |-> OrUndefined(expression) ]

\* const expr = expression?.trim(); expr === 'true' || expr === '(true)'
IsLiterallyTrue(expression) ==
  /\ ~expression.null
  /\ trim(expression.text) \in {TrueText, ParenthesizedTrueText}

\* Each check returns the issues it raises for a policy: none or one.
ALWAYS_TRUE_USING(policy) ==
  IF IsLiterallyTrue(policy.using_expression)
  THEN <<LintIssue("CRITICAL", "ALWAYS_TRUE_USING", policy,
                   policy.using_expression)>>
  ELSE <<>>

ALWAYS_TRUE_WITH_CHECK(policy) ==
  IF IsLiterallyTrue(policy.with_check_expression)
  THEN <<LintIssue("CRITICAL", "ALWAYS_TRUE_WITH_CHECK", policy,
                   policy.with_check_expression)>>
  ELSE <<>>

\* const expr = policy.using_expression || ''
NO_AUTH_UID_CHECK(policy) ==
  LET expr == IF policy.using_expression.null THEN <<>>
              ELSE policy.using_expression.text
  IN IF /\ policy.command = "SELECT"
        /\ ~includes(expr, AuthUidText)
        /\ expr # TrueText
        /\ expr # ParenthesizedTrueText
     THEN <<LintIssue("HIGH", "NO_AUTH_UID_CHECK", policy,
                      policy.using_expression)>>
     ELSE <<>>

PERMISSIVE_FOR_ALL(policy) ==
  IF \E i \in 1..Len(policy.roles) : policy.roles[i] \in {"{0}", "0"}
  THEN <<LintIssue("MEDIUM", "PERMISSIVE_FOR_ALL", policy, Null)>>
  ELSE <<>>

MISSING_WITH_CHECK(policy) ==
  IF /\ policy.command \in {"INSERT", "UPDATE"}
     /\ ~policy.using_expression.null
     /\ policy.with_check_expression.null
  THEN <<LintIssue("MEDIUM", "MISSING_WITH_CHECK", policy, Null)>>
  ELSE <<>>

\* for (const lintCheck of LINT_CHECKS) { ...; if (issue) issues.push(issue) }
LINT_CHECKS(policy) ==
  ALWAYS_TRUE_USING(policy) \o ALWAYS_TRUE_WITH_CHECK(policy)
    \o NO_AUTH_UID_CHECK(policy) \o PERMISSIVE_FOR_ALL(policy)
    \o MISSING_WITH_CHECK(policy)

CountSeverity(found, severity) ==
  Len(SelectSeq(found, LAMBDA i : i.severity = severity))

\* The expressions of the policies linted: a core with white space around.
Paddings == { <<>>, <<" ">>, <<"\n", " ">>, <<"\t">> }
Cores ==
  { <<>>, TrueText, ParenthesizedTrueText, <<"T", "R", "U", "E">>,
    <<"(", "(">> \o TrueText \o <<")", ")">>,
    <<"(", " ">> \o TrueText \o <<" ", ")">>,
    <<"t", "r", "u", " ", "e">>, <<"(">> \o TrueText,
    TrueText \o <<" ", "O", "R", " ">> \o TrueText,
    <<"n", "o", "t", " ">> \o TrueText,
    <<"(">> \o AuthUidText \o <<" ", "=", " ", "i", "d", ")">> }
Expressions ==
  {Null} \cup { Text(a \o core \o b) : a \in Paddings, core \in Cores,
                                       b \in Paddings }

LintedPolicies ==
  [ schema : {"public"}, table : {"users"}, policy_name : {"first"},
    command : {"SELECT", "UPDATE"}, using_expression : Expressions,
    with_check_expression : {Null, Text(TrueText)},
    roles : {<<"authenticated">>, <<"0">>} ]

\* A second policy of the same table, literally true.
OpenPolicy ==
  [ schema |-> "public", table |-> "users", policy_name |-> "second",
    command |-> "SELECT", using_expression |-> Text(TrueText),
    with_check_expression |-> Null, roles |-> <<"anon">> ]

\* lintResults: <<>> before lintPolicies has returned, <<results>> after.
NotLinted == <<>>

LintAtRest ==
  UNCHANGED << vars, runVars, diffVars, fileVars, connVars, coverageVars,
               poolVars >>

\* const policies = await fetchPoliciesForLinting(...); const issues = []
LintInit ==
  /\ EngineInit /\ RunIdle /\ DiffIdle
  /\ FileIdle /\ ConnIdle /\ CoverageIdle /\ PoolIdle
  /\ policies \in
       { <<>> } \cup { <<p>> : p \in LintedPolicies }
                \cup { <<p, OpenPolicy>> : p \in LintedPolicies }
  /\ lintCursor = 1
  /\ issues = <<>>
  /\ lintResults = NotLinted

\* One round of the loop over the policies: every check of LINT_CHECKS.
LintPolicy ==
  /\ lintResults = NotLinted
  /\ LintAtRest
  /\ lintCursor <= Len(policies)
  /\ issues' = issues \o LINT_CHECKS(policies[lintCursor])
  /\ lintCursor' = lintCursor + 1
  /\ UNCHANGED << policies, lintResults >>

\* return categorizeIssues(issues)
categorizeIssues ==
  /\ lintResults = NotLinted
  /\ LintAtRest
  /\ lintCursor > Len(policies)
  /\ lintResults' =
     << [ totalIssues |-> Len(issues),
          criticalCount |-> CountSeverity(issues, "CRITICAL"),
          highCount |-> CountSeverity(issues, "HIGH"),
          mediumCount |-> CountSeverity(issues, "MEDIUM") ] >>
  /\ UNCHANGED << policies, lintCursor, issues >>

LintNext == LintPolicy \/ categorizeIssues

LintSpec == LintInit /\ [][LintNext]_allVars

\* The text is 'true' or '(true)' with nothing but white space around it.
ExactlyTrueWhenTrimmed(expression) ==
  /\ ~expression.null
  /\ \E i \in 1..Len(expression.text), j \in 1..Len(expression.text) :
       /\ SubSeq(expression.text, i, j) \in {TrueText, ParenthesizedTrueText}
       /\ \A k \in 1..Len(expression.text) :
            (k < i \/ k > j) => expression.text[k] \in TrimmedCharacters

Flagged(policy, check_id) ==
  \E n \in 1..Len(issues) :
    issues[n].check_id = check_id /\ issues[n].policy = PolicyLabel(policy)

\* C23 (linter soundness): for every policy linted, ALWAYS_TRUE_USING is
\* raised if and only if the using_expression, with white space trimmed, is
\* exactly "true" or "(true)"; never for a null expression or any other text.
LinterSoundness ==
  \A n \in 1..Len(policies) :
    n < lintCursor =>
      (Flagged(policies[n], "ALWAYS_TRUE_USING")
         <=> ExactlyTrueWhenTrimmed(policies[n].using_expression))

\* A run that flagged "(true)" between white space on the first policy and
\* counted it, with the issue of the second policy, as critical.
LinterSoundnessWitness ==
  /\ lintResults # NotLinted
  /\ Len(policies) = 2
  /\ policies[1].using_expression =
       Text(<<"\n", " ">> \o ParenthesizedTrueText \o <<"\t">>)
  /\ policies[1].with_check_expression = Null
  /\ Flagged(policies[1], "ALWAYS_TRUE_USING")
  /\ lintResults[1].criticalCount = 2

(***************************************************************************)
(* The coverage builder: generateCoverageReport (core/coverage.ts).        *)
(***************************************************************************)
MaxCoverageTables == 2

\* const OPERATIONS = ['SELECT', 'INSERT', 'UPDATE', 'DELETE']
OPERATIONS == <<"SELECT", "INSERT", "UPDATE", "DELETE">>

\* DEFAULT_CLAIMS, by the name of the role probed
DEFAULT_CLAIMS ==
  [ anonymous |-> [role |-> "anon", sub |-> Undefined],
    authenticated |-> [role |-> "authenticated",
                       sub |-> "00000000-0000-0000-0000-000000000000"] ]

\* "Check Anonymous" comes before "Check Authenticated".
CoverageRoles == <<"anonymous", "authenticated">>

CoverageTableNames ==
  { [schema |-> "public", name |-> "users"],
    [schema |-> "public", name |-> "posts"],
    [schema |-> "auth", name |-> "users"] }

\* What discoverAllTables may return: distinct tables, each with its
\* rls_enabled flag, in any order.
DiscoveredTables ==
  UNION { { [i \in 1..Len(names) |->
               [schema |-> names[i].schema, name |-> names[i].name,
                rls_enabled |-> flags[i]]] :
            flags \in [1..Len(names) -> BOOLEAN] } :
          names \in DistinctSeqs(CoverageTableNames, MaxCoverageTables) }

\* What a probe yields for each role and operation: a ProbeResult, or
\* "RAISED" when the probe's promise rejects.
AccessAnswers ==
  { [r \in Range(CoverageRoles) |-> [o \in Range(OPERATIONS) |-> "DENY"]],
    [r \in Range(CoverageRoles) |->
       [o \in Range(OPERATIONS) |->
          IF r = "authenticated" THEN "ALLOW" ELSE "DENY"]],
    [r \in Range(CoverageRoles) |->
       [o \in Range(OPERATIONS) |->
          IF o = "SELECT" THEN "ALLOW"
          ELSE IF o = "INSERT" THEN "ERROR"
          ELSE IF o = "DELETE" /\ r = "authenticated" THEN "RAISED"
          ELSE "DENY"]] }

\* The order localeCompare puts the schema and table names of the model in.
NameCollation == <<"auth", "posts", "public", "users">>

\* if (a.schema !== b.schema) return a.schema.localeCompare(b.schema);
\* return a.name.localeCompare(b.name)
BySchemaThenName(a, b) ==
  IF a.schema # b.schema
  THEN Rank(NameCollation, a.schema) - Rank(NameCollation, b.schema)
  ELSE Rank(NameCollation, a.name) - Rank(NameCollation, b.name)

RECURSIVE InsertTable(_, _)
InsertTable(x, sorted) ==
  IF sorted = <<>> THEN <<x>>
  ELSE IF BySchemaThenName(x, Head(sorted)) < 0 THEN <<x>> \o sorted
  ELSE <<Head(sorted)>> \o InsertTable(x, Tail(sorted))

\* allTables.sort(BySchemaThenName)
RECURSIVE SortTables(_)
SortTables(arr) ==
  IF arr = <<>> THEN <<>>
  ELSE InsertTable(arr[Len(arr)], SortTables(SubSeq(arr, 1, Len(arr) - 1)))

createEmptyAccess == [o \in Range(OPERATIONS) |-> "DENY"]

createFullAccess == [o \in Range(OPERATIONS) |-> "ALLOW"]

\* Faulty variant: every table is probed.
AlwaysProbed(t) == TRUE

\* The else branch of if (!table.rls_enabled): the table is probed.
IsProbed(t) == t.rls_enabled

\* The TableCoverage a round of the loop starts from, with the access of a
\* table that is not probed filled in.
NewTableCoverage(t) ==
  [ schema |-> t.schema, name |-> t.name, rls_enabled |-> t.rls_enabled,
    access |-> [r \in Range(CoverageRoles) |->
                  IF IsProbed(t) THEN createEmptyAccess
                  ELSE createFullAccess] ]

\* The probes of a table, anonymous first: role and operation of probe n.
ProbesPerTable == Len(CoverageRoles) * Len(OPERATIONS)
RoleOfProbe(n) == CoverageRoles[((n - 1) \div Len(OPERATIONS)) + 1]
OperationOfProbe(n) == OPERATIONS[((n - 1) % Len(OPERATIONS)) + 1]

CoverageAtRest ==
  UNCHANGED << vars, runVars, diffVars, fileVars, connVars, lintVars,
               poolVars >>
coverageInputs == << discovered, accessAnswers >>

\* const client = await pool.connect()
CoverageInit ==
  /\ EngineInit /\ RunIdle /\ DiffIdle
  /\ FileIdle /\ ConnIdle /\ LintIdle /\ PoolIdle
  /\ discovered \in DiscoveredTables
  /\ accessAnswers \in AccessAnswers
  /\ coveragePc = "discover"
  /\ allTables = <<>>
  /\ tableCursor = 0
  /\ probeCursor = 0
  /\ tableCoverage = <<>>
  /\ report = <<>>
  /\ probesIssued = <<>>
  /\ coverageClient = TRUE

\* const allTables = await discoverAllTables(...); allTables.sort(...)
discoverAllTables ==
  /\ coveragePc = "discover"
  /\ CoverageAtRest
  /\ allTables' = SortTables(discovered)
  /\ tableCursor' = 1
  /\ coveragePc' = "table"
  /\ UNCHANGED << coverageInputs, probeCursor, tableCoverage, report,
                  probesIssued, coverageClient >>

\* A round of the loop over allTables up to its first probe; a table that is
\* not probed is pushed to the report with full access.
NextTable ==
  /\ coveragePc = "table"
  /\ CoverageAtRest
  /\ tableCursor <= Len(allTables)
  /\ LET t == allTables[tableCursor]
     IN IF IsProbed(t)
        THEN /\ tableCoverage' = <<NewTableCoverage(t)>>
             /\ probeCursor' = 1
             /\ coveragePc' = "probe"
             /\ UNCHANGED << report, tableCursor >>
        ELSE /\ report' = Append(report, NewTableCoverage(t))
             /\ tableCursor' = tableCursor + 1
             /\ UNCHANGED << tableCoverage, probeCursor, coveragePc >>
  /\ UNCHANGED << coverageInputs, allTables, probesIssued, coverageClient >>

\* tableCoverage.access[role][op] = await executeRlsPolicyProbeForOperation(
\*   pool, table.schema, table.name, op, DEFAULT_CLAIMS[role]);
\* after the last probe of the table, report.tables.push(tableCoverage).  A
\* rejected probe ends generateCoverageReport through its finally block.
ProbeTable ==
  /\ coveragePc = "probe"
  /\ CoverageAtRest
  /\ LET t == allTables[tableCursor]
         role == RoleOfProbe(probeCursor)
         op == OperationOfProbe(probeCursor)
         answer == accessAnswers[role][op]
         filled == [tableCoverage[1] EXCEPT !.access[role][op] = answer]
     IN /\ probesIssued' =
             Append(probesIssued,
                    [schema |-> t.schema, name |-> t.name, op |-> op,
                     claims |-> DEFAULT_CLAIMS[role]])
        /\ IF answer = "RAISED"
           THEN /\ coveragePc' = "rejected"
                /\ coverageClient' = FALSE
                /\ UNCHANGED << tableCoverage, probeCursor, report,
                                tableCursor >>
           ELSE IF probeCursor < ProbesPerTable
           THEN /\ tableCoverage' = <<filled>>
                /\ probeCursor' = probeCursor + 1
                /\ UNCHANGED << coveragePc, coverageClient, report,
                                tableCursor >>
           ELSE /\ report' = Append(report, filled)
                /\ tableCoverage' = <<>>
                /\ tableCursor' = tableCursor + 1
                /\ coveragePc' = "table"
                /\ UNCHANGED << probeCursor, coverageClient >>
  /\ UNCHANGED << coverageInputs, allTables >>

\* return report; finally { client.release() }
ReturnReport ==
  /\ coveragePc = "table"
  /\ CoverageAtRest
  /\ tableCursor > Len(allTables)
  /\ coveragePc' = "returned"
  /\ coverageClient' = FALSE
  /\ UNCHANGED << coverageInputs, allTables, tableCursor, probeCursor,
                  tableCoverage, report, probesIssued >>

CoverageNext ==
  \/ discoverAllTables
  \/ NextTable
  \/ ProbeTable
  \/ ReturnReport

CoverageSpec == CoverageInit /\ [][CoverageNext]_allVars

ProbedAt(t) ==
  \E n \in 1..Len(probesIssued) :
    probesIssued[n].schema = t.schema /\ probesIssued[n].name = t.name

ReportedAt(n) ==
  CHOOSE t \in Range(discovered) :
    t.schema = report[n].schema /\ t.name = report[n].name

\* C24 (RLS-disabled tables are reported open without a probe): every table
\* with rls_enabled = false is reported with ALLOW for all four operations
\* for anonymous and authenticated, and no probe is ever issued against it;
\* the probes issued are all against tables with RLS enabled.
UnprotectedTablesReportedOpen ==
  /\ \A n \in 1..Len(report) :
       ~ReportedAt(n).rls_enabled =>
         \A r \in {"anonymous", "authenticated"} :
           \A o \in {"SELECT", "INSERT", "UPDATE", "DELETE"} :
             report[n].access[r][o] = "ALLOW"
  /\ \A t \in Range(discovered) : ProbedAt(t) => t.rls_enabled
  /\ coveragePc = "returned" =>
       \A t \in Range(discovered) :
         \E n \in 1..Len(report) : ReportedAt(n) = t

\* A returned report of a table without RLS and a table with RLS whose
\* eight probes were issued and denied.
UnprotectedTablesWitness ==
  /\ coveragePc = "returned"
  /\ Len(report) = 2
  /\ ~report[1].rls_enabled /\ report[2].rls_enabled
  /\ report[1].access["anonymous"]["DELETE"] = "ALLOW"
  /\ report[2].access["authenticated"]["SELECT"] = "DENY"
  /\ Len(probesIssued) = 8

(***************************************************************************)
(* A run of tasks through executePromisesInParallel (shared/parallel.ts).  *)
(* A task (a table of executeTablesInParallel, a scenario of               *)
(* createPolicySnapshot) awaits one probe after another; a probe takes a   *)
(* client from the pool at entry and releases it after its final ROLLBACK  *)
(* (executeRlsPolicyProbeForOperation).  The commands end the process in   *)
(* their catch block, and no command installs a signal handler.            *)
(***************************************************************************)
MaxFactories == 3

\* new Pool({ ..., max: 10 })
POOL_MAX == 10

\* What a probe does: it returns a ProbeResult; pool.connect() rejects; or
\* its final ROLLBACK rejects, which leaves the client checked out.
ProbeKinds == {"returns", "connectFails", "rollbackFails"}

TaskKinds ==
  { <<"returns">>, <<"returns", "returns">>, <<"returns", "rollbackFails">>,
    <<"connectFails">> }

FactoryLists == UNION { [1..k -> TaskKinds] : k \in 0..MaxFactories }

\* The parallelism of a run: the test command hands 1..10 to the executor.
ExecutorConcurrencies == {1, 2, 10}

Stopped == [state |-> "exited", promiseIndex |-> 0, probe |-> 0]

\* const promiseIndex = currentIndex++; promiseFactories[promiseIndex]():
\* the task runs up to the pool.connect() of its first probe.
Pulled(promiseIndex) ==
  [state |-> "connecting", promiseIndex |-> promiseIndex, probe |-> 1]

\* Faulty variant: one execute() per factory.
OnePerFactory(concurrency_, factories) == 1..Len(factories)

\* Array(concurrency).fill(null).map(execute)
parallelExecutions(concurrency_, factories) == 1..concurrency_

\* Faulty variant: the client stays checked out.
KeepClient(n) == n

\* client.release()
ReleaseClient(n) == n - 1

PoolAtRest ==
  UNCHANGED << vars, runVars, diffVars, fileVars, connVars, lintVars,
               coverageVars >>
poolInputs == << promiseFactories, execConcurrency >>

PoolInit ==
  /\ EngineInit /\ RunIdle /\ DiffIdle
  /\ FileIdle /\ ConnIdle /\ LintIdle /\ CoverageIdle
  /\ promiseFactories \in FactoryLists
  /\ execConcurrency \in ExecutorConcurrencies
  /\ execIndex = 0
  /\ execWorkers = <<>>
  /\ clientsInUse = 0
  /\ processState = "called"

\* executePromisesInParallel is called: every execute() runs up to its first
\* await, taking a factory while one is left.
StartWorkers ==
  /\ processState = "called"
  /\ PoolAtRest
  /\ LET started_ == parallelExecutions(execConcurrency, promiseFactories)
         n == Len(promiseFactories)
         count == Cardinality(started_)
     IN /\ execWorkers' = [w \in 1..count |->
                             IF w <= n THEN Pulled(w) ELSE Stopped]
        /\ execIndex' = IF count < n THEN count ELSE n
  /\ processState' = "running"
  /\ UNCHANGED << poolInputs, clientsInUse >>

KindOf(worker) == promiseFactories[worker.promiseIndex][worker.probe]

\* A rejected probe rejects its task, execute(), Promise.all and
\* executePromisesInParallel; the command's catch block logs the error and
\* calls process.exit(1), with nothing awaited in between.
Failed(w) ==
  /\ execWorkers' = [execWorkers EXCEPT ![w].state = "failed"]
  /\ processState' = "exited"

\* const client = await pool.connect() resolves, and the probe sends BEGIN.
ConnectResolves(w) ==
  /\ processState = "running"
  /\ PoolAtRest
  /\ execWorkers[w].state = "connecting"
  /\ KindOf(execWorkers[w]) # "connectFails"
  /\ clientsInUse < POOL_MAX
  /\ clientsInUse' = clientsInUse + 1
  /\ execWorkers' = [execWorkers EXCEPT ![w].state = "begun"]
  /\ UNCHANGED << poolInputs, execIndex, processState >>

\* await pool.connect() rejects, outside the probe's try block.
ConnectRejects(w) ==
  /\ processState = "running"
  /\ PoolAtRest
  /\ execWorkers[w].state = "connecting"
  /\ KindOf(execWorkers[w]) = "connectFails"
  /\ Failed(w)
  /\ UNCHANGED << poolInputs, execIndex, clientsInUse >>

\* finally { await rollbackEntireTransactionForCleanup(client);
\* client.release() } and the probe returns.  The task goes on to its next
\* probe; after its last one results[promiseIndex] = result, and the loop of
\* execute() takes the next factory or ends.
ProbeReturns(w) ==
  /\ processState = "running"
  /\ PoolAtRest
  /\ execWorkers[w].state = "begun"
  /\ KindOf(execWorkers[w]) = "returns"
  /\ clientsInUse' = ReleaseClient(clientsInUse)
  /\ LET me == execWorkers[w]
     IN IF me.probe < Len(promiseFactories[me.promiseIndex])
        THEN /\ execWorkers' =
                  [execWorkers EXCEPT
                     ![w] = [me EXCEPT !.state = "connecting",
                                       !.probe = @ + 1]]
             /\ UNCHANGED execIndex
        ELSE IF execIndex < Len(promiseFactories)
        THEN /\ execWorkers' = [execWorkers EXCEPT ![w] = Pulled(execIndex + 1)]
             /\ execIndex' = execIndex + 1
        ELSE /\ execWorkers' = [execWorkers EXCEPT ![w] = Stopped]
             /\ UNCHANGED execIndex
  /\ UNCHANGED << poolInputs, processState >>

\* The final ROLLBACK rejects: client.release() is not reached and the
\* probe rejects.
RollbackRejects(w) ==
  /\ processState = "running"
  /\ PoolAtRest
  /\ execWorkers[w].state = "begun"
  /\ KindOf(execWorkers[w]) = "rollbackFails"
  /\ Failed(w)
  /\ UNCHANGED << poolInputs, execIndex, clientsInUse >>

\* await Promise.all(parallelExecutions) resolves; return results
PromiseAllResolves ==
  /\ processState = "running"
  /\ PoolAtRest
  /\ \A w \in DOMAIN execWorkers : execWorkers[w].state = "exited"
  /\ processState' = "resolved"
  /\ UNCHANGED << poolInputs, execIndex, execWorkers, clientsInUse >>

\* The run is cancelled (SIGINT): without a handler for the signal the
\* process ends where it is.
Interrupt ==
  /\ processState = "running"
  /\ PoolAtRest
  /\ processState' = "killed"
  /\ UNCHANGED << poolInputs, execIndex, execWorkers, clientsInUse >>

PoolProgress ==
  \/ StartWorkers
  \/ \E w \in DOMAIN execWorkers : ConnectResolves(w)
  \/ \E w \in DOMAIN execWorkers : ConnectRejects(w)
  \/ \E w \in DOMAIN execWorkers : ProbeReturns(w)
  \/ \E w \in DOMAIN execWorkers : RollbackRejects(w)
  \/ PromiseAllResolves

PoolNext == PoolProgress \/ Interrupt

PoolSpec == PoolInit /\ [][PoolNext]_allVars

\* Every database call of a probe returns: a step that can be taken is taken.
PoolLiveSpec == PoolSpec /\ WF_allVars(PoolProgress)

\* The factories started and not yet settled.
InFlightTasks ==
  { w \in DOMAIN execWorkers : execWorkers[w].state \in {"connecting", "begun"} }

Least(a, b) == IF a < b THEN a ELSE b

\* C25 (bounded parallelism): while executePromisesInParallel(tasks, n) runs
\* with n >= 1, at most n factories are in flight at any time, and at most
\* min(n, number of tasks).
BoundedParallelism ==
  /\ Cardinality(InFlightTasks) <= execConcurrency
  /\ Cardinality(InFlightTasks)
       <= Least(execConcurrency, Len(promiseFactories))

\* Two of three factories in flight under concurrency 2, the third not yet
\* taken.
BoundedParallelismWitness ==
  /\ processState = "running"
  /\ execConcurrency = 2
  /\ Len(promiseFactories) = 3
  /\ Cardinality(InFlightTasks) = 2
  /\ execIndex = 2

Ended == processState \in {"exited", "killed"}

\* C26 (cancellation at probe granularity): once the run is cancelled or a
\* task has failed no worker takes a further factory, and a probe that is
\* past BEGIN at that moment still runs its ROLLBACK path before its worker
\* stops: no worker is left stopped inside a probe's transaction.
CancellationAtProbeGranularity ==
  Ended => \A w \in DOMAIN execWorkers : execWorkers[w].state # "begun"

\* C27 (pooled connections): the clients checked out by probes never exceed
\* the parallelism in use, so the pool of POOL_MAX clients is never
\* exhausted by a run, and the run ends once the database calls of its
\* probes return.
PooledConnectionsBounded ==
  /\ [](clientsInUse <= execConcurrency /\ clientsInUse <= POOL_MAX)
  /\ <>(processState \in {"resolved", "exited", "killed"})

\* A run of three tasks under parallelism 2 that held two clients at once.
PooledConnectionsWitness ==
  /\ processState = "running"
  /\ execConcurrency = 2
  /\ Len(promiseFactories) = 3
  /\ clientsInUse = 2
  /\ \E w \in DOMAIN execWorkers :
       execWorkers[w].state = "begun" /\ execWorkers[w].promiseIndex = 3

(***************************************************************************)
(* The counters of a test run (updateTestCounters).                        *)
(***************************************************************************)
Counting == runPc \in {"tests", "workers", "collected", "exited"}

OutcomeCounters(results) ==
  << results.passed_tests, results.failed_tests, results.error_tests,
     results.skipped_tests >>

Sum4(c) == c[1] + c[2] + c[3] + c[4]

\* The counters before and after the k-th result of the run was counted.
CountersBefore(k) == CountAll(NoTestResults, SubSeq(Detailed, 1, k - 1))
CountersAfter(k) == updateTestCounters(CountersBefore(k), Detailed[k])

\* C28 (counter totals): from all-zero counters, after the results of a run
\* were counted total_tests is the number of results and the sum of
\* passed_tests, failed_tests, error_tests and skipped_tests, and every
\* result incremented exactly one of these four counters.
CounterTotals ==
  Counting =>
    /\ testResults.total_tests = Len(Detailed)
    /\ testResults.total_tests = Sum4(OutcomeCounters(testResults))
    /\ \A k \in 1..Len(Detailed) :
         LET b == OutcomeCounters(CountersBefore(k))
             a == OutcomeCounters(CountersAfter(k))
         IN /\ CountersAfter(k).total_tests = CountersBefore(k).total_tests + 1
            /\ \A i \in 1..4 : a[i] - b[i] \in {0, 1}
            /\ Sum4(a) = Sum4(b) + 1

\* A finished run that counted passed, failed and errored results.
CounterTotalsWitness ==
  /\ runPc = "exited"
  /\ testResults.total_tests >= 3
  /\ testResults.passed_tests >= 1
  /\ testResults.failed_tests >= 1
  /\ testResults.error_tests >= 1

IdentityStages == {"claims", "role", "legacy"}

IdentityInstallFailed ==
  \E i \in 1..Len(log) : Stage(log[i]) \in IdentityStages /\ ~log[i].ok

\* C29 (identity install failure): when a statement of the identity install
\* fails (request.jwt.claims, SET LOCAL ROLE or the role GUC), no statement
\* against the target table is sent and the probe returns ERROR, never ALLOW
\* or DENY.
IdentityInstallFailureIsError ==
  IdentityInstallFailed =>
    /\ \A i \in 1..Len(log) : log[i].sql \notin TouchesTable
    /\ pc = "done" => outcome = "ERROR"

\* The cells previous holds and current does not.
RemovedCells ==
  { c \in AllCells :
      /\ Lookup(previousSnapshot[1], c[1], c[2], c[3]) # Undefined
      /\ Lookup(currentSnapshot, c[1], c[2], c[3]) = Undefined }

\* C30 (cells removed from current): compareSnapshots visits the cells of
\* current only; a cell that previous holds and current does not is named in
\* none of the three lists, and isIdentical is true whenever every cell of
\* current has the outcome previous has for it.
RemovedCellsUnreported ==
  Compared =>
    /\ \A c \in RemovedCells : InNoList(Difference, c)
    /\ (\A c \in AllCells :
          Lookup(currentSnapshot, c[1], c[2], c[3]) # Undefined =>
            Lookup(previousSnapshot[1], c[1], c[2], c[3])
              = Lookup(currentSnapshot, c[1], c[2], c[3]))
         => Difference.isIdentical

\* A comparison returned as identical although previous holds a cell that
\* current does not: the two snapshots differ.
RemovedCellsWitness ==
  /\ Compared
  /\ Difference.isIdentical
  /\ RemovedCells # {}
  /\ previousSnapshot[1] # currentSnapshot
  /\ currentSnapshot # <<>>

====
